---- MODULE Spec2Model ----
(***************************************************************************)
(* A model of the WebSocket chat server: RoomManager, ReactionManager,     *)
(* ConnectionManager, MessageRouter, the six message handlers and the      *)
(* WebSocketServer that ties them to the transport.                        *)
(*                                                                         *)
(* JavaScript runs each callback to completion.  No execute() of a handler *)
(* awaits anything, so the work of one inbound event (validation, registry *)
(* mutation, broadcasts) is one step; the continuation of the onAny        *)
(* callback (ack or error reply) runs in the microtask checkpoint of the   *)
(* same task and is part of that step.  SpecLoop splits the step where the *)
(* callback suspends, for packets of one socket handed over in one task.   *)
(*                                                                         *)
(* Date values (joinedAt, createdAt, timestamp of a Reaction, timestamp of *)
(* outgoing payloads) carry no control flow and are left out of the        *)
(* records.                                                                *)
(***************************************************************************)
EXTENDS Integers, Sequences, FiniteSets, TLC

(***************************************************************************)
(* Bounds and input alphabets                                              *)
(***************************************************************************)
MaxSockets == 2

AllSocketIds == <<"s1", "s2", "s3", "s4">>

SocketIds == {AllSocketIds[i] : i \in 1..MaxSockets}

RoomIds == {"r1", "r2"}

MessageIds == {"m1"}

\* the emoji allow-list of MessageReactionSchema, by name
AllowedEmojis == {"thumbsup", "heart", "joy", "wow", "cry", "fire"}

\* JavaScript's undefined (an omitted optional argument, a failed lookup)
Undefined == "undefined"

(***************************************************************************)
(* Insertion-ordered containers.  A JavaScript Set that is iterated is a   *)
(* duplicate-free sequence; a Map that is iterated is a sequence of        *)
(* [key, value] entries; a Map that is only looked up is a function.       *)
(***************************************************************************)
Range(seq) == {seq[i] : i \in 1..Len(seq)}

SetAdd(seq, x) == IF x \in Range(seq) THEN seq ELSE Append(seq, x)

SetDelete(seq, x) == SelectSeq(seq, LAMBDA y : y # x)

MapKeys(m) == {m[i].key : i \in 1..Len(m)}

MapHas(m, k) == k \in MapKeys(m)

MapGet(m, k) == (CHOOSE i \in 1..Len(m) : m[i].key = k)

MapValue(m, k) == m[MapGet(m, k)].value

\* Map.prototype.set: an existing key keeps its position
MapSet(m, k, v) ==
    IF MapHas(m, k)
    THEN [i \in 1..Len(m) |-> IF m[i].key = k THEN [key |-> k, value |-> v] ELSE m[i]]
    ELSE Append(m, [key |-> k, value |-> v])

MapDelete(m, k) == SelectSeq(m, LAMBDA e : e.key # k)

MapValues(m) == [i \in 1..Len(m) |-> m[i].value]

FnSet(f, k, v) == [x \in (DOMAIN f) \cup {k} |-> IF x = k THEN v ELSE f[x]]

FnDelete(f, k) == [x \in (DOMAIN f) \ {k} |-> f[x]]

EmptyFn == [x \in {} |-> x]

\* Array.prototype.find / findIndex: first match, 0 when there is none
FindIndex(seq, P(_)) ==
    IF \E i \in 1..Len(seq) : P(seq[i])
    THEN CHOOSE i \in 1..Len(seq) : P(seq[i]) /\ \A j \in 1..(i - 1) : ~P(seq[j])
    ELSE 0

\* Array.prototype.splice(index, 1)
Splice1(seq, index) == [i \in 1..(Len(seq) - 1) |-> IF i < index THEN seq[i] ELSE seq[i + 1]]

VARIABLES
    rooms,          \* RoomManager.rooms: roomId -> Room
    socketToRooms,  \* RoomManager.socketToRooms: socketId -> Set<roomId>
    socketToUser,   \* ConnectionManager.socketToUser: socketId -> userId
    userToSockets,  \* ConnectionManager.userToSockets: userId -> Set<socketId>
    reactions,      \* ReactionManager.reactions: messageId -> (emoji -> Reaction[])
    conn,           \* transport: the life cycle of each socket id
    sent,           \* what the last step emitted and the transport delivered
    last,           \* the last step: operation, arguments, outcome
    microtasks      \* onAny callbacks suspended at "await route(...)", oldest first

vars ==
    <<rooms, socketToRooms, socketToUser, userToSockets, reactions, conn, sent, last,
      microtasks>>

(***************************************************************************)
(* RoomManager.  rm is [rooms, socketToRooms].                             *)
(***************************************************************************)
RM == [rooms |-> rooms, socketToRooms |-> socketToRooms]

createRoom(rm, roomId) ==
    IF roomId \notin DOMAIN rm.rooms
    THEN [rm EXCEPT !.rooms = FnSet(@, roomId, [id |-> roomId, users |-> <<>>])]
    ELSE rm

\* mutant: a socket that is already in the room keeps its first snapshot
joinRoom_keepsFirstSnapshot(rm, roomId, user) ==
    LET rm1 == IF roomId \notin DOMAIN rm.rooms THEN createRoom(rm, roomId) ELSE rm
        rm2 == IF MapHas(rm1.rooms[roomId].users, user.socketId)
               THEN rm1
               ELSE [rm1 EXCEPT !.rooms[roomId].users = MapSet(@, user.socketId, user)]
        rm3 == IF user.socketId \notin DOMAIN rm2.socketToRooms
               THEN [rm2 EXCEPT !.socketToRooms = FnSet(@, user.socketId, <<>>)]
               ELSE rm2
    IN  [rm3 EXCEPT !.socketToRooms[user.socketId] = SetAdd(@, roomId)]

\* mutant: the room is not recorded in the socket's room-set
joinRoom_noReverseIndex(rm, roomId, user) ==
    LET rm1 == IF roomId \notin DOMAIN rm.rooms THEN createRoom(rm, roomId) ELSE rm
    IN  [rm1 EXCEPT !.rooms[roomId].users = MapSet(@, user.socketId, user)]

joinRoom(rm, roomId, user) ==
    LET rm1 == IF roomId \notin DOMAIN rm.rooms THEN createRoom(rm, roomId) ELSE rm
        rm2 == [rm1 EXCEPT !.rooms[roomId].users = MapSet(@, user.socketId, user)]
        rm3 == IF user.socketId \notin DOMAIN rm2.socketToRooms
               THEN [rm2 EXCEPT !.socketToRooms = FnSet(@, user.socketId, <<>>)]
               ELSE rm2
    IN  [rm3 EXCEPT !.socketToRooms[user.socketId] = SetAdd(@, roomId)]

\* mutant: an emptied room stays in the table
leaveRoom_keepsEmptyRoom(rm, roomId, socketId) ==
    LET rm1 == IF roomId \in DOMAIN rm.rooms
               THEN [rm EXCEPT !.rooms[roomId].users = MapDelete(@, socketId)]
               ELSE rm
    IN  IF socketId \in DOMAIN rm1.socketToRooms
        THEN [rm1 EXCEPT !.socketToRooms[socketId] = SetDelete(@, roomId)]
        ELSE rm1

\* mutant: the socketId -> roomIds side is not updated
leaveRoom_keepsReverseIndex(rm, roomId, socketId) ==
    IF roomId \in DOMAIN rm.rooms
    THEN LET users == MapDelete(rm.rooms[roomId].users, socketId)
         IN  IF Len(users) = 0
             THEN [rm EXCEPT !.rooms = FnDelete(@, roomId)]
             ELSE [rm EXCEPT !.rooms[roomId].users = users]
    ELSE rm

\* mutant: the member entry stays, only the socket's room-set is updated
leaveRoom_keepsMember(rm, roomId, socketId) ==
    IF socketId \in DOMAIN rm.socketToRooms
    THEN [rm EXCEPT !.socketToRooms[socketId] = SetDelete(@, roomId)]
    ELSE rm

leaveRoom(rm, roomId, socketId) ==
    LET rm1 == IF roomId \in DOMAIN rm.rooms
               THEN LET users == MapDelete(rm.rooms[roomId].users, socketId)
                    IN  IF Len(users) = 0
                        THEN [rm EXCEPT !.rooms = FnDelete(@, roomId)]
                        ELSE [rm EXCEPT !.rooms[roomId].users = users]
               ELSE rm
    IN  IF socketId \in DOMAIN rm1.socketToRooms
        THEN [rm1 EXCEPT !.socketToRooms[socketId] = SetDelete(@, roomId)]
        ELSE rm1

\* Set.prototype.forEach over the live Set: the next value visited is the
\* first one, in insertion order, that is still in the Set and was not
\* visited yet.
RECURSIVE leaveAllRoomsLoop(_, _, _)
leaveAllRoomsLoop(rm, socketId, visited) ==
    LET live == rm.socketToRooms[socketId]
        i == FindIndex(live, LAMBDA r : r \notin visited)
    IN  IF i = 0
        THEN rm
        ELSE leaveAllRoomsLoop(leaveRoom(rm, live[i], socketId), socketId,
                               visited \cup {live[i]})

\* mutant: the rooms are walked by position, as an array would be, while
\* leaveRoom shortens the Set
RECURSIVE leaveAllRoomsByIndexLoop(_, _, _)
leaveAllRoomsByIndexLoop(rm, socketId, i) ==
    LET live == rm.socketToRooms[socketId]
    IN  IF i > Len(live)
        THEN rm
        ELSE leaveAllRoomsByIndexLoop(leaveRoom(rm, live[i], socketId), socketId, i + 1)

leaveAllRooms_byIndex(rm, socketId) ==
    IF socketId \in DOMAIN rm.socketToRooms
    THEN [leaveAllRoomsByIndexLoop(rm, socketId, 1) EXCEPT
              !.socketToRooms = FnDelete(@, socketId)]
    ELSE rm

leaveAllRooms(rm, socketId) ==
    IF socketId \in DOMAIN rm.socketToRooms
    THEN [leaveAllRoomsLoop(rm, socketId, {}) EXCEPT !.socketToRooms = FnDelete(@, socketId)]
    ELSE rm

getRoomUsers(rm, roomId) ==
    IF roomId \in DOMAIN rm.rooms THEN MapValues(rm.rooms[roomId].users) ELSE <<>>

getUserRooms(rm, socketId) ==
    IF socketId \in DOMAIN rm.socketToRooms THEN rm.socketToRooms[socketId] ELSE <<>>

roomExists(rm, roomId) == roomId \in DOMAIN rm.rooms

\* mutant: only the room is looked up
isUserInRoom_roomOnly(rm, roomId, socketId) == roomId \in DOMAIN rm.rooms

isUserInRoom(rm, roomId, socketId) ==
    roomId \in DOMAIN rm.rooms /\ MapHas(rm.rooms[roomId].users, socketId)

(***************************************************************************)
(* ReactionManager.  rx is messageId -> Map(emoji -> Reaction[]).          *)
(***************************************************************************)
\* mutant: the reaction is pushed without looking for an existing one
\* mutant: a new record goes to the front of its bucket
addReaction_prepends(rx, messageId, reaction) ==
    LET rx1 == IF messageId \notin DOMAIN rx THEN FnSet(rx, messageId, <<>>) ELSE rx
        rx2 == IF ~MapHas(rx1[messageId], reaction.emoji)
               THEN [rx1 EXCEPT ![messageId] = MapSet(@, reaction.emoji, <<>>)]
               ELSE rx1
        emojiReactions == MapValue(rx2[messageId], reaction.emoji)
        existingIndex == FindIndex(emojiReactions, LAMBDA r : r.userId = reaction.userId)
    IN  IF existingIndex = 0
        THEN [rx2 EXCEPT ![messageId] =
                 MapSet(@, reaction.emoji, <<reaction>> \o emojiReactions)]
        ELSE rx2

\* mutant: every add is pushed, whether or not the user has a record
addReaction_noDuplicateCheck(rx, messageId, reaction) ==
    LET rx1 == IF messageId \notin DOMAIN rx THEN FnSet(rx, messageId, <<>>) ELSE rx
        rx2 == IF ~MapHas(rx1[messageId], reaction.emoji)
               THEN [rx1 EXCEPT ![messageId] = MapSet(@, reaction.emoji, <<>>)]
               ELSE rx1
    IN  [rx2 EXCEPT ![messageId] =
            MapSet(@, reaction.emoji, Append(MapValue(rx2[messageId], reaction.emoji), reaction))]

addReaction(rx, messageId, reaction) ==
    LET rx1 == IF messageId \notin DOMAIN rx THEN FnSet(rx, messageId, <<>>) ELSE rx
        rx2 == IF ~MapHas(rx1[messageId], reaction.emoji)
               THEN [rx1 EXCEPT ![messageId] = MapSet(@, reaction.emoji, <<>>)]
               ELSE rx1
        emojiReactions == MapValue(rx2[messageId], reaction.emoji)
        existingIndex == FindIndex(emojiReactions, LAMBDA r : r.userId = reaction.userId)
    IN  IF existingIndex = 0
        THEN [rx2 EXCEPT ![messageId] =
                 MapSet(@, reaction.emoji, Append(emojiReactions, reaction))]
        ELSE rx2

\* mutant: the emptied bucket and message entry are not cleaned up
removeReaction_noCascade(rx, messageId, userId, emoji) ==
    IF messageId \notin DOMAIN rx THEN rx
    ELSE IF ~MapHas(rx[messageId], emoji) THEN rx
    ELSE LET emojiReactions == MapValue(rx[messageId], emoji)
             index == FindIndex(emojiReactions, LAMBDA r : r.userId = userId)
         IN  IF index = 0 THEN rx
             ELSE [rx EXCEPT ![messageId] = MapSet(@, emoji, Splice1(emojiReactions, index))]

removeReaction(rx, messageId, userId, emoji) ==
    IF messageId \notin DOMAIN rx THEN rx
    ELSE IF ~MapHas(rx[messageId], emoji) THEN rx
    ELSE LET emojiReactions == MapValue(rx[messageId], emoji)
             index == FindIndex(emojiReactions, LAMBDA r : r.userId = userId)
         IN  IF index = 0 THEN rx
             ELSE LET spliced == Splice1(emojiReactions, index)
                      messageReactions ==
                          IF Len(spliced) = 0
                          THEN MapDelete(rx[messageId], emoji)
                          ELSE MapSet(rx[messageId], emoji, spliced)
                  IN  IF Len(messageReactions) = 0
                      THEN FnDelete(rx, messageId)
                      ELSE [rx EXCEPT ![messageId] = messageReactions]

getReactions(rx, messageId) ==
    IF messageId \in DOMAIN rx THEN rx[messageId] ELSE <<>>

\* mutant: any record in the bucket counts as the user's
hasUserReacted_anyReactor(rx, messageId, userId, emoji) ==
    messageId \in DOMAIN rx /\ MapHas(rx[messageId], emoji)

hasUserReacted(rx, messageId, userId, emoji) ==
    /\ messageId \in DOMAIN rx
    /\ MapHas(rx[messageId], emoji)
    /\ \E i \in 1..Len(MapValue(rx[messageId], emoji)) :
           MapValue(rx[messageId], emoji)[i].userId = userId

(***************************************************************************)
(* ConnectionManager.  cm is [socketToUser, userToSockets].                *)
(***************************************************************************)
CM == [socketToUser |-> socketToUser, userToSockets |-> userToSockets]

addConnection(cm, socketId, userId) ==
    LET cm1 == [cm EXCEPT !.socketToUser = FnSet(@, socketId, userId)]
        cm2 == IF userId \notin DOMAIN cm1.userToSockets
               THEN [cm1 EXCEPT !.userToSockets = FnSet(@, userId, <<>>)]
               ELSE cm1
    IN  [cm2 EXCEPT !.userToSockets[userId] = SetAdd(@, socketId)]

\* mutant: only the socketId -> userId entry is deleted
removeConnection_keepsUserSet(cm, socketId) ==
    [cm EXCEPT !.socketToUser = FnDelete(@, socketId)]

\* mutant: the user's entry is deleted even when other sockets remain in it
removeConnection_dropsUser(cm, socketId) ==
    LET cm1 ==
          IF socketId \in DOMAIN cm.socketToUser /\ cm.socketToUser[socketId] # ""
          THEN [cm EXCEPT !.userToSockets = FnDelete(@, cm.socketToUser[socketId])]
          ELSE cm
    IN  [cm1 EXCEPT !.socketToUser = FnDelete(@, socketId)]

removeConnection(cm, socketId) ==
    LET cm1 ==
          IF socketId \in DOMAIN cm.socketToUser /\ cm.socketToUser[socketId] # ""
          THEN LET userId == cm.socketToUser[socketId]
                   cmA == IF userId \in DOMAIN cm.userToSockets
                          THEN [cm EXCEPT !.userToSockets[userId] = SetDelete(@, socketId)]
                          ELSE cm
               IN  IF userId \in DOMAIN cmA.userToSockets /\ Len(cmA.userToSockets[userId]) = 0
                   THEN [cmA EXCEPT !.userToSockets = FnDelete(@, userId)]
                   ELSE cmA
          ELSE cm
    IN  [cm1 EXCEPT !.socketToUser = FnDelete(@, socketId)]

getConnectionsByUser(cm, userId) ==
    IF userId \in DOMAIN cm.userToSockets THEN cm.userToSockets[userId] ELSE <<>>

getUserBySocket(cm, socketId) ==
    IF socketId \in DOMAIN cm.socketToUser THEN cm.socketToUser[socketId] ELSE Undefined

(***************************************************************************)
(* Schemas (zod).  A payload is a record; an absent field is absent from   *)
(* its domain.  safeParse's result is [success, data].                     *)
(***************************************************************************)
MinLen == 1

MaxUsernameLen == 50

MaxMessageLen == 500

IsString(data, field, min) == field \in DOMAIN data /\ Len(data[field]) >= min

\* String.prototype.trim on the strings the inputs are drawn from
Trim(s) == CASE s = " bob" -> "bob"
             [] s = " " -> ""
             [] OTHER -> s

\* z.string().datetime(): the ISO-8601 strings among the inputs
IsIsoDatetime(s) == s \in {"2024-01-15T10:30:00Z"}

JoinRoomSchema(data) ==
    LET ok == /\ IsString(data, "roomId", MinLen)
              /\ IsString(data, "username", MinLen)
              /\ Len(data.username) <= MaxUsernameLen
    IN  [success |-> ok,
         data |-> IF ok THEN [roomId |-> data.roomId, username |-> Trim(data.username)]
                  ELSE data]

LeaveRoomSchema(data) ==
    LET ok == IsString(data, "roomId", MinLen)
    IN  [success |-> ok, data |-> IF ok THEN [roomId |-> data.roomId] ELSE data]

ChatMessageSchema(data) ==
    LET ok == /\ IsString(data, "message", MinLen)
              /\ Len(data.message) <= MaxMessageLen
              /\ IsString(data, "roomId", MinLen)
              /\ IsString(data, "messageId", MinLen)
              /\ ("timestamp" \in DOMAIN data => IsIsoDatetime(data.timestamp))
    IN  [success |-> ok, data |-> data]

MessageReactionSchema(data) ==
    LET ok == /\ IsString(data, "messageId", MinLen)
              /\ IsString(data, "roomId", MinLen)
              /\ "emoji" \in DOMAIN data
              /\ data.emoji \in AllowedEmojis
    IN  [success |-> ok, data |-> data]

TypingSchema(data) ==
    LET ok == /\ IsString(data, "roomId", MinLen)
              /\ "isTyping" \in DOMAIN data
              /\ data.isTyping \in BOOLEAN
    IN  [success |-> ok, data |-> data]

PingSchema(data) ==
    LET ok == "timestamp" \in DOMAIN data /\ IsIsoDatetime(data.timestamp)
    IN  [success |-> ok, data |-> data]

(***************************************************************************)
(* Errors and handler results.  A result is the registries as the handler  *)
(* left them, the emits it made through the server, and what it threw.     *)
(***************************************************************************)
NoError == [name |-> "none", message |-> ""]

Error(message) == [name |-> "Error", message |-> message]

ValidationError(message) == [name |-> "ValidationError", message |-> message]

Result(rm, rx, out, error) == [rm |-> rm, rx |-> rx, out |-> out, error |-> error]

RosterEntry(u) == [userId |-> u.userId, username |-> u.username]

Roster(users) == [i \in 1..Len(users) |-> RosterEntry(users[i])]

(***************************************************************************)
(* WebSocketServer.broadcastToRoom: the io.to(socketId).emit calls made.   *)
(***************************************************************************)
Emit(to, eventName, data) == [to |-> to, eventName |-> eventName, data |-> data]

\* mutant: excludeSocketId is ignored
broadcastToRoom_noExclude(rm, roomId, eventName, data, excludeSocketId) ==
    LET users == getRoomUsers(rm, roomId)
    IN  [i \in 1..Len(users) |-> Emit(users[i].socketId, eventName, data)]

\* mutant: the event goes to every socket that has a room-set
broadcastToRoom_everySocket(rm, roomId, eventName, data, excludeSocketId) ==
    LET targets == SelectSeq(AllSocketIds, LAMBDA socketId :
                       /\ socketId \in DOMAIN rm.socketToRooms
                       /\ (excludeSocketId \in {Undefined, ""} \/ socketId # excludeSocketId))
    IN  [i \in 1..Len(targets) |-> Emit(targets[i], eventName, data)]

broadcastToRoom(rm, roomId, eventName, data, excludeSocketId) ==
    LET users == getRoomUsers(rm, roomId)
        targets == SelectSeq(users, LAMBDA user :
                       excludeSocketId \in {Undefined, ""} \/ user.socketId # excludeSocketId)
    IN  [i \in 1..Len(targets) |-> Emit(targets[i].socketId, eventName, data)]

\* mutant: only the user's first socket is served
emitToUser_firstConnection(cm, userId, eventName, data) ==
    LET socketIds == getConnectionsByUser(cm, userId)
    IN  [i \in 1..(IF Len(socketIds) > 0 THEN 1 ELSE 0) |->
            Emit(socketIds[i], eventName, data)]

emitToUser(cm, userId, eventName, data) ==
    LET socketIds == getConnectionsByUser(cm, userId)
    IN  [i \in 1..Len(socketIds) |-> Emit(socketIds[i], eventName, data)]

(***************************************************************************)
(* Handlers: execute(socketId, eventName, data) of each handler class.     *)
(***************************************************************************)
\* mutant: the roster is read before the join
JoinRoomHandler_execute_staleRoster(rm, rx, socketId, data) ==
    LET user == [socketId |-> socketId, userId |-> socketId, username |-> data.username]
        users == getRoomUsers(rm, data.roomId)
        rm1 == joinRoom(rm, data.roomId, user)
    IN  Result(rm1, rx,
               broadcastToRoom(rm1, data.roomId, "room:user_joined",
                   [roomId |-> data.roomId, user |-> RosterEntry(user), users |-> Roster(users)],
                   Undefined),
               NoError)

\* mutant: the joiner is left out of its own room:user_joined
JoinRoomHandler_execute_excludesSender(rm, rx, socketId, data) ==
    LET user == [socketId |-> socketId, userId |-> socketId, username |-> data.username]
        rm1 == joinRoom(rm, data.roomId, user)
        users == getRoomUsers(rm1, data.roomId)
    IN  Result(rm1, rx,
               broadcastToRoom(rm1, data.roomId, "room:user_joined",
                   [roomId |-> data.roomId, user |-> RosterEntry(user), users |-> Roster(users)],
                   socketId),
               NoError)

JoinRoomHandler_execute(rm, rx, socketId, data) ==
    LET user == [socketId |-> socketId, userId |-> socketId, username |-> data.username]
        rm1 == joinRoom(rm, data.roomId, user)
        users == getRoomUsers(rm1, data.roomId)
    IN  Result(rm1, rx,
               broadcastToRoom(rm1, data.roomId, "room:user_joined",
                   [roomId |-> data.roomId, user |-> RosterEntry(user), users |-> Roster(users)],
                   Undefined),
               NoError)

\* mutant: the room is notified whether or not the sender was found in it
LeaveRoomHandler_execute_alwaysNotifies(rm, rx, socketId, data) ==
    LET users == getRoomUsers(rm, data.roomId)
        found == FindIndex(users, LAMBDA u : u.socketId = socketId)
        rm1 == leaveRoom(rm, data.roomId, socketId)
    IN  Result(rm1, rx,
               broadcastToRoom(rm1, data.roomId, "room:user_left",
                   [roomId |-> data.roomId,
                    user |-> IF found # 0 THEN RosterEntry(users[found])
                             ELSE [userId |-> Undefined, username |-> Undefined],
                    users |-> Roster(getRoomUsers(rm1, data.roomId))],
                   Undefined),
               NoError)

\* mutant: a socket that is not in the room is refused, as in the other handlers
LeaveRoomHandler_execute_refusesStranger(rm, rx, socketId, data) ==
    LET users == getRoomUsers(rm, data.roomId)
        found == FindIndex(users, LAMBDA u : u.socketId = socketId)
        rm1 == leaveRoom(rm, data.roomId, socketId)
    IN  IF found # 0
        THEN Result(rm1, rx,
                    broadcastToRoom(rm1, data.roomId, "room:user_left",
                        [roomId |-> data.roomId, user |-> RosterEntry(users[found]),
                         users |-> Roster(getRoomUsers(rm1, data.roomId))],
                        Undefined),
                    NoError)
        ELSE Result(rm, rx, <<>>, Error("User not in room"))

\* mutant: the leaver's reactions are withdrawn with it
LeaveRoomHandler_execute_dropsReactions(rm, rx, socketId, data) ==
    LET users == getRoomUsers(rm, data.roomId)
        found == FindIndex(users, LAMBDA u : u.socketId = socketId)
        rm1 == leaveRoom(rm, data.roomId, socketId)
        rx1 == [m \in DOMAIN rx |->
                   [i \in 1..Len(rx[m]) |->
                       [key |-> rx[m][i].key,
                        value |-> SelectSeq(rx[m][i].value, LAMBDA r : r.userId # socketId)]]]
    IN  IF found # 0
        THEN Result(rm1, rx1,
                    broadcastToRoom(rm1, data.roomId, "room:user_left",
                        [roomId |-> data.roomId, user |-> RosterEntry(users[found]),
                         users |-> Roster(getRoomUsers(rm1, data.roomId))],
                        Undefined),
                    NoError)
        ELSE Result(rm1, rx, <<>>, NoError)

\* mutant: the room is notified before the member is removed
LeaveRoomHandler_execute_notifiesFirst(rm, rx, socketId, data) ==
    LET users == getRoomUsers(rm, data.roomId)
        found == FindIndex(users, LAMBDA u : u.socketId = socketId)
        rm1 == leaveRoom(rm, data.roomId, socketId)
    IN  IF found # 0
        THEN Result(rm1, rx,
                    broadcastToRoom(rm, data.roomId, "room:user_left",
                        [roomId |-> data.roomId, user |-> RosterEntry(users[found]),
                         users |-> Roster(getRoomUsers(rm1, data.roomId))],
                        Undefined),
                    NoError)
        ELSE Result(rm1, rx, <<>>, NoError)

LeaveRoomHandler_execute(rm, rx, socketId, data) ==
    LET users == getRoomUsers(rm, data.roomId)
        found == FindIndex(users, LAMBDA u : u.socketId = socketId)
        rm1 == leaveRoom(rm, data.roomId, socketId)
    IN  IF found # 0
        THEN Result(rm1, rx,
                    broadcastToRoom(rm1, data.roomId, "room:user_left",
                        [roomId |-> data.roomId, user |-> RosterEntry(users[found]),
                         users |-> Roster(getRoomUsers(rm1, data.roomId))],
                        Undefined),
                    NoError)
        ELSE Result(rm1, rx, <<>>, NoError)

\* mutant: the message goes out with the reactions the index holds for its id
ChatMessageHandler_execute_withReactions(rm, rx, socketId, data) ==
    IF ~isUserInRoom(rm, data.roomId, socketId)
    THEN Result(rm, rx, <<>>, Error("User not in room"))
    ELSE LET users == getRoomUsers(rm, data.roomId)
             found == FindIndex(users, LAMBDA u : u.socketId = socketId)
         IN  IF found = 0
             THEN Result(rm, rx, <<>>, Error("Sender not found"))
             ELSE Result(rm, rx,
                         broadcastToRoom(rm, data.roomId, "chat:message",
                             [messageId |-> data.messageId, roomId |-> data.roomId,
                              sender |-> RosterEntry(users[found]),
                              message |-> data.message,
                              reactions |-> MapValues(getReactions(rx, data.messageId))],
                             Undefined),
                         NoError)

\* mutant: a sender that is not in the room is put into it
ChatMessageHandler_execute_autoJoin(rm, rx, socketId, data) ==
    LET rm1 == IF isUserInRoom(rm, data.roomId, socketId)
               THEN rm
               ELSE joinRoom(rm, data.roomId,
                             [socketId |-> socketId, userId |-> socketId,
                              username |-> socketId])
        users == getRoomUsers(rm1, data.roomId)
        found == FindIndex(users, LAMBDA u : u.socketId = socketId)
    IN  Result(rm1, rx,
               broadcastToRoom(rm1, data.roomId, "chat:message",
                   [messageId |-> data.messageId, roomId |-> data.roomId,
                    sender |-> RosterEntry(users[found]),
                    message |-> data.message, reactions |-> <<>>],
                   Undefined),
               NoError)

ChatMessageHandler_execute(rm, rx, socketId, data) ==
    IF ~isUserInRoom(rm, data.roomId, socketId)
    THEN Result(rm, rx, <<>>, Error("User not in room"))
    ELSE LET users == getRoomUsers(rm, data.roomId)
             found == FindIndex(users, LAMBDA u : u.socketId = socketId)
         IN  IF found = 0
             THEN Result(rm, rx, <<>>, Error("Sender not found"))
             ELSE Result(rm, rx,
                         broadcastToRoom(rm, data.roomId, "chat:message",
                             [messageId |-> data.messageId, roomId |-> data.roomId,
                              sender |-> RosterEntry(users[found]),
                              message |-> data.message, reactions |-> <<>>],
                             Undefined),
                         NoError)

\* mutant: a second reaction of the same user is ignored instead of removed
toggleReaction_neverRemoves(rx, messageId, user, emoji) ==
    addReaction(rx, messageId,
        [userId |-> user.userId, username |-> user.username, emoji |-> emoji])

\* lines 45-64: the toggle
toggleReaction(rx, messageId, user, emoji) ==
    IF hasUserReacted(rx, messageId, user.userId, emoji)
    THEN removeReaction(rx, messageId, user.userId, emoji)
    ELSE addReaction(rx, messageId,
             [userId |-> user.userId, username |-> user.username, emoji |-> emoji])

\* lines 66-76: Map(emoji -> Reaction[]) to emoji -> [{userId, username}]
reactionsFormatted(messageReactions) ==
    [i \in 1..Len(messageReactions) |->
        [key |-> messageReactions[i].key, value |-> Roster(messageReactions[i].value)]]

\* mutant: only the bucket of the toggled emoji is reported
MessageReactionHandler_execute_toggledBucketOnly(rm, rx, socketId, data) ==
    IF ~isUserInRoom(rm, data.roomId, socketId)
    THEN Result(rm, rx, <<>>, Error("User not in room"))
    ELSE LET users == getRoomUsers(rm, data.roomId)
             found == FindIndex(users, LAMBDA u : u.socketId = socketId)
         IN  IF found = 0
             THEN Result(rm, rx, <<>>, Error("User not found"))
             ELSE LET rx1 == toggleReaction(rx, data.messageId, users[found], data.emoji)
                  IN  Result(rm, rx1,
                             broadcastToRoom(rm, data.roomId, "message:reaction_updated",
                                 [messageId |-> data.messageId, roomId |-> data.roomId,
                                  reactions |->
                                      reactionsFormatted(
                                          SelectSeq(getReactions(rx1, data.messageId),
                                                    LAMBDA b : b.key = data.emoji))],
                                 Undefined),
                             NoError)

MessageReactionHandler_execute(rm, rx, socketId, data) ==
    IF ~isUserInRoom(rm, data.roomId, socketId)
    THEN Result(rm, rx, <<>>, Error("User not in room"))
    ELSE LET users == getRoomUsers(rm, data.roomId)
             found == FindIndex(users, LAMBDA u : u.socketId = socketId)
         IN  IF found = 0
             THEN Result(rm, rx, <<>>, Error("User not found"))
             ELSE LET rx1 == toggleReaction(rx, data.messageId, users[found], data.emoji)
                  IN  Result(rm, rx1,
                             broadcastToRoom(rm, data.roomId, "message:reaction_updated",
                                 [messageId |-> data.messageId, roomId |-> data.roomId,
                                  reactions |->
                                      reactionsFormatted(getReactions(rx1, data.messageId))],
                                 Undefined),
                             NoError)

TypingIndicatorHandler_execute(rm, rx, socketId, data) ==
    IF ~isUserInRoom(rm, data.roomId, socketId)
    THEN Result(rm, rx, <<>>, Error("User not in room"))
    ELSE LET users == getRoomUsers(rm, data.roomId)
             found == FindIndex(users, LAMBDA u : u.socketId = socketId)
         IN  IF found = 0
             THEN Result(rm, rx, <<>>, Error("Typer not found"))
             ELSE Result(rm, rx,
                         broadcastToRoom(rm, data.roomId, "room:typing",
                             [roomId |-> data.roomId, userId |-> users[found].userId,
                              username |-> users[found].username,
                              isTyping |-> data.isTyping],
                             socketId),
                         NoError)

\* mutant: the pong of the commented-out line 30 is sent
PingMessageHandler_execute_pong(rm, rx, socketId, data) ==
    Result(rm, rx, <<Emit(socketId, "pong", [timestamp |-> data.timestamp])>>, NoError)

PingMessageHandler_execute(rm, rx, socketId, data) == Result(rm, rx, <<>>, NoError)

(***************************************************************************)
(* Application: the handler table; BaseMessageHandler.handle; the router.  *)
(***************************************************************************)
handlers ==
    [eventName \in {"join:room", "leave:room", "chat:message", "message:reaction",
                    "ping", "room:typing"} |->
        CASE eventName = "join:room" -> "JoinRoomHandler"
          [] eventName = "leave:room" -> "LeaveRoomHandler"
          [] eventName = "chat:message" -> "ChatMessageHandler"
          [] eventName = "message:reaction" -> "MessageReactionHandler"
          [] eventName = "ping" -> "PingMessageHandler"
          [] eventName = "room:typing" -> "TypingIndicatorHandler"]

schema(handler, data) ==
    CASE handler = "JoinRoomHandler" -> JoinRoomSchema(data)
      [] handler = "LeaveRoomHandler" -> LeaveRoomSchema(data)
      [] handler = "ChatMessageHandler" -> ChatMessageSchema(data)
      [] handler = "MessageReactionHandler" -> MessageReactionSchema(data)
      [] handler = "PingMessageHandler" -> PingSchema(data)
      [] handler = "TypingIndicatorHandler" -> TypingSchema(data)

execute(handler, rm, rx, socketId, data) ==
    CASE handler = "JoinRoomHandler" -> JoinRoomHandler_execute(rm, rx, socketId, data)
      [] handler = "LeaveRoomHandler" -> LeaveRoomHandler_execute(rm, rx, socketId, data)
      [] handler = "ChatMessageHandler" -> ChatMessageHandler_execute(rm, rx, socketId, data)
      [] handler = "MessageReactionHandler" ->
             MessageReactionHandler_execute(rm, rx, socketId, data)
      [] handler = "PingMessageHandler" -> PingMessageHandler_execute(rm, rx, socketId, data)
      [] handler = "TypingIndicatorHandler" ->
             TypingIndicatorHandler_execute(rm, rx, socketId, data)

\* mutant: a failed parse is thrown as a plain Error
handle_plainError(handler, rm, rx, socketId, data) ==
    LET result == schema(handler, data)
    IN  IF ~result.success
        THEN Result(rm, rx, <<>>, Error("Invalid data format"))
        ELSE execute(handler, rm, rx, socketId, result.data)

handle(handler, rm, rx, socketId, data) ==
    LET result == schema(handler, data)
    IN  IF ~result.success
        THEN Result(rm, rx, <<>>, ValidationError("Invalid data format"))
        ELSE execute(handler, rm, rx, socketId, result.data)

\* mutant: an event without a handler is dropped silently
route_dropsUnknown(rm, rx, socketId, eventName, data) ==
    IF eventName \notin DOMAIN handlers
    THEN Result(rm, rx, <<>>, NoError)
    ELSE handle(handlers[eventName], rm, rx, socketId, data)

route(rm, rx, socketId, eventName, data) ==
    IF eventName \notin DOMAIN handlers
    THEN Result(rm, rx, <<>>, Error("No handler registered for event"))
    ELSE handle(handlers[eventName], rm, rx, socketId, data)

(***************************************************************************)
(* WebSocketServer: the onAny callback, handleError, handleDisconnect.     *)
(***************************************************************************)
\* mutant: a failure is logged and nothing is sent to the socket
handleError_silent(socketId, eventName, error) == <<>>

handleError(socketId, eventName, error) ==
    IF error.name = "ValidationError"
    THEN <<Emit(socketId, "validation:error", [eventName |-> eventName])>>
    ELSE IF error.name = "Error"
    THEN <<Emit(socketId, "error", [eventName |-> eventName, message |-> error.message])>>
    ELSE <<>>

\* mutant: the ack is emitted after the try/catch, whatever happened
onAny_ackAlways(rm, rx, socketId, eventName, data) ==
    LET res == route(rm, rx, socketId, eventName, data)
        ack == Emit(socketId, "message:ack", [eventName |-> eventName, status |-> "success"])
    IN  IF res.error = NoError
        THEN [res EXCEPT !.out = Append(@, ack)]
        ELSE [res EXCEPT !.out = Append(@ \o handleError(socketId, eventName, res.error), ack)]

onAny(rm, rx, socketId, eventName, data) ==
    LET res == route(rm, rx, socketId, eventName, data)
    IN  IF res.error = NoError
        THEN [res EXCEPT !.out = Append(@, Emit(socketId, "message:ack",
                                 [eventName |-> eventName, status |-> "success"]))]
        ELSE [res EXCEPT !.out = @ \o handleError(socketId, eventName, res.error)]

\* rooms.forEach over the array getUserRooms returned
RECURSIVE handleDisconnectLoop(_, _, _)
handleDisconnectLoop(res, socketId, roomIds) ==
    IF roomIds = <<>>
    THEN res
    ELSE LET roomId == Head(roomIds)
             users == getRoomUsers(res.rm, roomId)
             found == FindIndex(users, LAMBDA u : u.socketId = socketId)
             rm1 == leaveRoom(res.rm, roomId, socketId)
             out == IF found # 0
                    THEN broadcastToRoom(rm1, roomId, "room:user_left",
                             [roomId |-> roomId, user |-> RosterEntry(users[found]),
                              users |-> Roster(getRoomUsers(rm1, roomId))],
                             Undefined)
                    ELSE <<>>
         IN  handleDisconnectLoop([res EXCEPT !.rm = rm1, !.out = @ \o out],
                                  socketId, Tail(roomIds))

\* mutant: the rooms are left through leaveAllRooms, without notifications
handleDisconnect_silent(rm, cm, socketId) ==
    [rm |-> leaveAllRooms(rm, socketId), cm |-> removeConnection(cm, socketId), out |-> <<>>]

\* mutant: only the first room of the socket is left
handleDisconnect_firstRoomOnly(rm, cm, socketId) ==
    LET roomIds == getUserRooms(rm, socketId)
        res == handleDisconnectLoop([rm |-> rm, out |-> <<>>], socketId,
                                    IF roomIds = <<>> THEN <<>> ELSE <<Head(roomIds)>>)
    IN  [rm |-> res.rm, cm |-> removeConnection(cm, socketId), out |-> res.out]

handleDisconnect(rm, cm, socketId) ==
    LET res == handleDisconnectLoop([rm |-> rm, out |-> <<>>], socketId,
                                    getUserRooms(rm, socketId))
    IN  [rm |-> res.rm, cm |-> removeConnection(cm, socketId), out |-> res.out]

\* mutant: the socket is taken out of the connection registry before the rooms
handleDisconnectStep_removesFirst(rm, cm, socketId, roomIds) ==
    IF socketId \in DOMAIN cm.socketToUser
    THEN [rm |-> rm, cm |-> removeConnection(cm, socketId), out |-> <<>>,
          roomIds |-> roomIds, done |-> roomIds = <<>>]
    ELSE LET res == handleDisconnectLoop([rm |-> rm, out |-> <<>>], socketId,
                                         <<Head(roomIds)>>)
         IN  [rm |-> res.rm, cm |-> cm, out |-> res.out,
              roomIds |-> Tail(roomIds), done |-> Tail(roomIds) = <<>>]

\* handleDisconnect one statement at a time: roomIds is what forEach has
\* still to visit of the array getUserRooms returned; one call runs the
\* callback for its first room, or, when none is left, removeConnection
handleDisconnectStep(rm, cm, socketId, roomIds) ==
    IF roomIds # <<>>
    THEN LET res == handleDisconnectLoop([rm |-> rm, out |-> <<>>], socketId,
                                         <<Head(roomIds)>>)
         IN  [rm |-> res.rm, cm |-> cm, out |-> res.out,
              roomIds |-> Tail(roomIds), done |-> FALSE]
    ELSE [rm |-> rm, cm |-> removeConnection(cm, socketId), out |-> <<>>,
          roomIds |-> <<>>, done |-> TRUE]

\* the transport delivers an emit to the socket with that id while it is connected
deliver(c, out) == SelectSeq(out, LAMBDA e : e.to \in DOMAIN c /\ c[e.to] = "connected")

(***************************************************************************)
(* Inputs the transport hands over: well-formed and malformed payloads.    *)
(***************************************************************************)
AuthUserIds == {Undefined}

\* the display name each client types
JoinNames(s) ==
    CASE s = "s1" -> {"alice"}
      [] s = "s2" -> {" bob"}
      [] s = "s3" -> {"carol"}
      [] OTHER -> {"dave"}

InputEmojis == {"thumbsup"}

JoinPayloads(s) ==
    {[roomId |-> r, username |-> n] : r \in RoomIds, n \in JoinNames(s)}
        \cup {[roomId |-> "r1", username |-> ""], [username |-> "alice"]}

LeavePayloads == {[roomId |-> r] : r \in RoomIds} \cup {[roomId |-> ""]}

ChatPayloads ==
    {[message |-> "hi", roomId |-> r, messageId |-> m] : r \in RoomIds, m \in MessageIds}
        \cup {[message |-> "", roomId |-> "r1", messageId |-> "m1"]}

ReactionPayloads ==
    {[messageId |-> m, roomId |-> r, emoji |-> e] :
         m \in MessageIds, r \in RoomIds, e \in InputEmojis}
        \cup {[messageId |-> "m1", roomId |-> "r1", emoji |-> "poop"]}

TypingPayloads ==
    {[roomId |-> r, isTyping |-> b] : r \in RoomIds, b \in BOOLEAN}
        \cup {[roomId |-> "r1"]}

PingPayloads == {[timestamp |-> "2024-01-15T10:30:00Z"], [timestamp |-> "yesterday"]}

(***************************************************************************)
(* The server as a state machine.                                          *)
(***************************************************************************)
\* the registries as they are when a step begins
Registries == [rm |-> RM, rx |-> reactions, cm |-> CM]

\* the record of a step: what was called, with what, what it threw, and the
\* registries it started from
Step(op, socketId, eventName, data, error) ==
    [op |-> op, socketId |-> socketId, eventName |-> eventName, data |-> data,
     error |-> error, pre |-> Registries]

\* between two tasks of the event loop: nothing is being processed
Idle ==
    [op |-> "idle", socketId |-> "", eventName |-> "", data |-> <<>>,
     error |-> NoError, pre |-> <<>>]

Init ==
    /\ rooms = EmptyFn
    /\ socketToRooms = EmptyFn
    /\ socketToUser = EmptyFn
    /\ userToSockets = EmptyFn
    /\ reactions = EmptyFn
    /\ conn = [s \in SocketIds |-> "new"]
    /\ sent = <<>>
    /\ last = Idle
    /\ microtasks = <<>>

\* handleConnection: the transport reports a new socket
handleConnection(cm, socketId, authUserId) ==
    addConnection(cm, socketId,
                  IF authUserId \in {Undefined, ""} THEN socketId ELSE authUserId)

Connect(s, auth) ==
    /\ last = Idle
    /\ conn[s] = "new"
    /\ conn' = [conn EXCEPT ![s] = "connected"]
    /\ LET cm == handleConnection(CM, s, auth)
       IN  /\ socketToUser' = cm.socketToUser
           /\ userToSockets' = cm.userToSockets
    /\ sent' = <<>>
    /\ last' = Step("connect", s, "", [userId |-> auth], NoError)
    /\ UNCHANGED <<rooms, socketToRooms, reactions, microtasks>>

\* socket.onAny: one inbound event of a connected socket, through to its reply
Inbound(s, eventName, data) ==
    /\ last = Idle
    /\ conn[s] = "connected"
    /\ LET res == onAny(RM, reactions, s, eventName, data)
       IN  /\ rooms' = res.rm.rooms
           /\ socketToRooms' = res.rm.socketToRooms
           /\ reactions' = res.rx
           /\ sent' = deliver(conn, res.out)
           /\ last' = Step("event", s, eventName, data, res.error)
    /\ UNCHANGED <<socketToUser, userToSockets, conn, microtasks>>

JoinRoomEvent == \E s \in SocketIds : \E data \in JoinPayloads(s) : Inbound(s, "join:room", data)

LeaveRoomEvent == \E s \in SocketIds, data \in LeavePayloads : Inbound(s, "leave:room", data)

ChatMessageEvent == \E s \in SocketIds, data \in ChatPayloads : Inbound(s, "chat:message", data)

MessageReactionEvent ==
    \E s \in SocketIds, data \in ReactionPayloads : Inbound(s, "message:reaction", data)

TypingEvent == \E s \in SocketIds, data \in TypingPayloads : Inbound(s, "room:typing", data)

PingEvent == \E s \in SocketIds, data \in PingPayloads : Inbound(s, "ping", data)

UnknownEvent == \E s \in SocketIds : Inbound(s, "pong", [timestamp |-> "yesterday"])

\* socket.on('disconnect'): by then the socket has left the transport
Disconnect(s) ==
    /\ last = Idle
    /\ conn[s] = "connected"
    /\ conn' = [conn EXCEPT ![s] = "disconnected"]
    /\ LET res == handleDisconnect(RM, CM, s)
       IN  /\ rooms' = res.rm.rooms
           /\ socketToRooms' = res.rm.socketToRooms
           /\ socketToUser' = res.cm.socketToUser
           /\ userToSockets' = res.cm.userToSockets
           /\ sent' = deliver(conn', res.out)
    /\ last' = Step("disconnect", s, "", <<>>, NoError)
    /\ UNCHANGED <<reactions, microtasks>>

\* the callback has returned and its emits are on the wire: the event loop
\* is ready for the next task
Settle ==
    /\ last # Idle
    /\ microtasks = <<>>
    /\ last' = Idle
    /\ sent' = <<>>
    /\ UNCHANGED <<rooms, socketToRooms, socketToUser, userToSockets, reactions, conn,
                   microtasks>>

ConnectEvent == \E s \in SocketIds, auth \in AuthUserIds : Connect(s, auth)

DisconnectEvent == \E s \in SocketIds : Disconnect(s)

Next ==
    \/ ConnectEvent
    \/ JoinRoomEvent
    \/ LeaveRoomEvent
    \/ ChatMessageEvent
    \/ MessageReactionEvent
    \/ TypingEvent
    \/ PingEvent
    \/ UnknownEvent
    \/ DisconnectEvent
    \/ Settle

Spec == Init /\ [][Next]_vars

(***************************************************************************)
(* The RoomManager interface called directly (IRoomManager).               *)
(***************************************************************************)
\* a second display name, for snapshots that replace one another
ApiNames == {"alice", "bob"}

ApiUsers == {[socketId |-> s, userId |-> s, username |-> n] : s \in SocketIds, n \in ApiNames}

RoomCall(op, socketId, data, rm) ==
    /\ last = Idle
    /\ rooms' = rm.rooms
    /\ socketToRooms' = rm.socketToRooms
    /\ sent' = <<>>
    /\ last' = Step(op, socketId, "", data, NoError)
    /\ UNCHANGED <<socketToUser, userToSockets, reactions, conn, microtasks>>

CreateRoomCall ==
    \E r \in RoomIds : RoomCall("createRoom", "", [roomId |-> r], createRoom(RM, r))

JoinRoomCall ==
    \E r \in RoomIds, user \in ApiUsers :
        RoomCall("joinRoom", user.socketId, [roomId |-> r, user |-> user],
                 joinRoom(RM, r, user))

LeaveRoomCall ==
    \E r \in RoomIds, s \in SocketIds :
        RoomCall("leaveRoom", s, [roomId |-> r], leaveRoom(RM, r, s))

LeaveAllRoomsCall ==
    \E s \in SocketIds : RoomCall("leaveAllRooms", s, <<>>, leaveAllRooms(RM, s))

NextRooms ==
    \/ CreateRoomCall
    \/ JoinRoomCall
    \/ LeaveRoomCall
    \/ LeaveAllRoomsCall
    \/ Settle

SpecRooms == Init /\ [][NextRooms]_vars

(***************************************************************************)
(* The ReactionManager interface called directly (IReactionManager), and   *)
(* the toggle of MessageReactionHandler on top of it.                      *)
(***************************************************************************)
\* the (messageId, emoji) buckets the calls address
ApiBuckets == {<<"m1", "thumbsup">>, <<"m1", "heart">>, <<"m2", "thumbsup">>}

ApiReactors ==
    UNION {{[userId |-> s, username |-> Trim(n)] : n \in JoinNames(s)} : s \in SocketIds}
        \cup {[userId |-> "s1", username |-> "al"]}

ReactionCall(op, data, rx) ==
    /\ last = Idle
    /\ reactions' = rx
    /\ sent' = <<>>
    /\ last' = Step(op, "", "", data, NoError)
    /\ UNCHANGED <<rooms, socketToRooms, socketToUser, userToSockets, conn, microtasks>>

AddReactionCall ==
    \E b \in ApiBuckets, u \in ApiReactors :
        LET reaction == [userId |-> u.userId, username |-> u.username, emoji |-> b[2]]
        IN  ReactionCall("addReaction", [messageId |-> b[1], reaction |-> reaction],
                         addReaction(reactions, b[1], reaction))

RemoveReactionCall ==
    \E b \in ApiBuckets, u \in ApiReactors :
        ReactionCall("removeReaction",
                     [messageId |-> b[1], userId |-> u.userId, emoji |-> b[2]],
                     removeReaction(reactions, b[1], u.userId, b[2]))

ToggleReactionCall ==
    \E b \in ApiBuckets, u \in ApiReactors :
        ReactionCall("toggleReaction",
                     [messageId |-> b[1], userId |-> u.userId, emoji |-> b[2]],
                     toggleReaction(reactions, b[1], u, b[2]))

NextReactions ==
    \/ AddReactionCall
    \/ RemoveReactionCall
    \/ ToggleReactionCall
    \/ Settle

SpecReactions == Init /\ [][NextReactions]_vars

(***************************************************************************)
(* The event loop at the granularity of the onAny callback.  The callback  *)
(* runs synchronously through route, handle and execute (none of them      *)
(* suspends before its work is done) and is suspended at "await route":    *)
(* the ack or the error reply is emitted by its continuation, a microtask. *)
(* The transport may hand several packets of one socket to the callback in *)
(* the same task; their continuations then run after all of them, in the   *)
(* order the callbacks were suspended.                                     *)
(***************************************************************************)
MaxBatch == 2

LoopRooms == {"r1"}

LoopEmojis == {"thumbsup", "heart"}

LoopJoinPayloads(s) == {[roomId |-> r, username |-> n] : r \in LoopRooms, n \in JoinNames(s)}

LoopReactionPayloads ==
    {[messageId |-> m, roomId |-> r, emoji |-> e] :
         m \in MessageIds, r \in LoopRooms, e \in LoopEmojis}

\* the continuation of the onAny callback: lines 71-80
onAnyResumed(socketId, eventName, error) ==
    IF error = NoError
    THEN <<Emit(socketId, "message:ack", [eventName |-> eventName, status |-> "success"])>>
    ELSE handleError(socketId, eventName, error)

\* the record of a step of a task: the packets handed over so far in this
\* task, the registries when the task began and when this step began
LoopStep(op, socketId, eventName, data, error, batch, start) ==
    [op |-> op, socketId |-> socketId, eventName |-> eventName, data |-> data,
     error |-> error, pre |-> Registries, batch |-> batch, start |-> start]

\* the callback is called with a packet: route runs, the callback suspends
Dispatch(s, eventName, data) ==
    /\ conn[s] = "connected"
    /\ \/ last = Idle
       \/ /\ last.op = "dispatch"
          /\ last.socketId = s
          /\ Len(last.batch) < MaxBatch
    /\ LET res == route(RM, reactions, s, eventName, data)
           packet == [eventName |-> eventName, data |-> data]
       IN  /\ rooms' = res.rm.rooms
           /\ socketToRooms' = res.rm.socketToRooms
           /\ reactions' = res.rx
           /\ sent' = deliver(conn, res.out)
           /\ microtasks' = Append(microtasks,
                                   [socketId |-> s, eventName |-> eventName,
                                    error |-> res.error])
           /\ last' = IF last = Idle
                      THEN LoopStep("dispatch", s, eventName, data, res.error,
                                    <<packet>>, Registries)
                      ELSE LoopStep("dispatch", s, eventName, data, res.error,
                                    Append(last.batch, packet), last.start)
    /\ UNCHANGED <<socketToUser, userToSockets, conn>>

\* the oldest suspended callback resumes and replies
Resume ==
    /\ microtasks # <<>>
    /\ LET job == Head(microtasks)
       IN  /\ sent' = deliver(conn, onAnyResumed(job.socketId, job.eventName, job.error))
           /\ last' = LoopStep("resume", job.socketId, job.eventName, <<>>, job.error,
                               last.batch, last.start)
    /\ microtasks' = Tail(microtasks)
    /\ UNCHANGED <<rooms, socketToRooms, socketToUser, userToSockets, reactions, conn>>

LoopJoinRoom ==
    \E s \in SocketIds : \E data \in LoopJoinPayloads(s) : Dispatch(s, "join:room", data)

LoopMessageReaction ==
    \E s \in SocketIds, data \in LoopReactionPayloads : Dispatch(s, "message:reaction", data)

NextLoop ==
    \/ ConnectEvent
    \/ LoopJoinRoom
    \/ LoopMessageReaction
    \/ Resume
    \/ DisconnectEvent
    \/ Settle

SpecLoop == Init /\ [][NextLoop]_vars

(***************************************************************************)
(* Properties                                                              *)
(***************************************************************************)
\* socket s is a key of the member map of room roomId
Member(rm, roomId, s) == roomId \in DOMAIN rm.rooms /\ s \in MapKeys(rm.rooms[roomId].users)

IsEvent(eventName) == last.op = "event" /\ last.eventName = eventName

\* C1: in every state reached through join:room, leave:room and disconnects a
\* room is in the room table if and only if it has at least one member.
C1_RoomExistsIffMembers ==
    \A r \in RoomIds \cup DOMAIN rooms : roomExists(RM, r) <=> Len(getRoomUsers(RM, r)) > 0

\* a leave:room of the only member of a room has just deleted the room
C1_Witness ==
    /\ IsEvent("leave:room")
    /\ last.error = NoError
    /\ Member(last.pre.rm, last.data.roomId, last.socketId)
    /\ Len(getRoomUsers(last.pre.rm, last.data.roomId)) = 1
    /\ ~roomExists(RM, last.data.roomId)

\* C2: after every RoomManager operation a socket id is in a room's member
\* map if and only if the room id is in that socket's room-set.
C2_BidirectionalMembership ==
    \A r \in RoomIds, s \in SocketIds :
        Member(RM, r, s) <=> r \in Range(getUserRooms(RM, s))

\* a leaveRoom took a socket out of one of the two rooms it was in
C2_Witness ==
    /\ last.op = "leaveRoom"
    /\ Len(getUserRooms(last.pre.rm, last.socketId)) = 2
    /\ Member(last.pre.rm, last.data.roomId, last.socketId)
    /\ Len(getUserRooms(RM, last.socketId)) = 1

\* C3: getReactions(messageId) never holds two records with the same
\* (emoji, userId), whatever sequence of addReaction, removeReaction and
\* toggles produced it.
C3_NoDuplicateReaction ==
    \A m \in DOMAIN reactions :
        LET mr == getReactions(reactions, m)
        IN  \A i, j \in 1..Len(mr) :
                \A a \in 1..Len(mr[i].value), b \in 1..Len(mr[j].value) :
                    (/\ mr[i].value[a].emoji = mr[j].value[b].emoji
                     /\ mr[i].value[a].userId = mr[j].value[b].userId)
                        => (i = j /\ a = b)

\* addReaction was called for a (message, emoji, user) that had a record
C3_Witness ==
    /\ last.op = "addReaction"
    /\ hasUserReacted(last.pre.rx, last.data.messageId, last.data.reaction.userId,
                      last.data.reaction.emoji)
    /\ Len(MapValue(reactions[last.data.messageId], last.data.reaction.emoji)) >= 2

\* C4: a (messageId, emoji) bucket is present iff it holds a reaction and a
\* messageId entry is present iff it has a non-empty bucket: no empty bucket
\* and no empty message entry is retained.
C4_NoEmptyBucketOrEntry ==
    \A m \in DOMAIN reactions :
        /\ Len(reactions[m]) > 0
        /\ \A i \in 1..Len(reactions[m]) : Len(reactions[m][i].value) > 0

\* removeReaction took the last record of the only bucket of a message
C4_Witness ==
    /\ last.op = "removeReaction"
    /\ last.data.messageId \in DOMAIN last.pre.rx
    /\ Len(last.pre.rx[last.data.messageId]) = 1
    /\ hasUserReacted(last.pre.rx, last.data.messageId, last.data.userId, last.data.emoji)
    /\ Len(MapValue(last.pre.rx[last.data.messageId], last.data.emoji)) = 1
    /\ last.data.messageId \notin DOMAIN reactions
    /\ reactions # EmptyFn

\* the inbound event of the last step passed its handler's schema
ValidPayload ==
    /\ last.eventName \in DOMAIN handlers
    /\ schema(handlers[last.eventName], last.data).success

\* the member's snapshot and the toggles a member can send in this state
Snapshot(rm, roomId, s) == MapValue(rm.rooms[roomId].users, s)

\* the emojis clients send, and one that none has sent: its bucket is absent,
\* like that of every other unused emoji
ToggleEmojis == InputEmojis \cup {"heart"}

AllReactionPayloads ==
    {[messageId |-> m, roomId |-> r, emoji |-> e] :
         m \in MessageIds, r \in RoomIds, e \in ToggleEmojis}

\* between two tasks, and right after a message:reaction: the registries of
\* any other state are those of the settled state that follows it
AtToggleBoundary == last = Idle \/ IsEvent("message:reaction")

MemberToggles ==
    IF AtToggleBoundary
    THEN {t \in SocketIds \X AllReactionPayloads : Member(RM, t[2].roomId, t[1])}
    ELSE {}

\* the reaction index after the same member sends the same message:reaction twice
ToggleTwice(s, data) ==
    LET first == MessageReactionHandler_execute(RM, reactions, s, data)
        second == MessageReactionHandler_execute(first.rm, first.rx, s, data)
    IN  second.rx

Reactors(rx, m, e) ==
    IF m \in DOMAIN rx /\ MapHas(rx[m], e)
    THEN {MapValue(rx[m], e)[i].userId : i \in 1..Len(MapValue(rx[m], e))}
    ELSE {}

Bucket(rx, m, e) == IF m \in DOMAIN rx /\ MapHas(rx[m], e) THEN MapValue(rx[m], e) ELSE <<>>

\* C5 (as stated): in every reachable state, two toggles in immediate
\* succession by a room member with the same (messageId, emoji) return the
\* reaction index to what it was, the order of every bucket included.
C5_ToggleTwiceIsIdentity ==
    \A t \in MemberToggles : ToggleTwice(t[1], t[2]) = reactions

\* C5 (amended): two such toggles give every bucket its set of reacting users
\* back; the index is exactly restored when the member had no record before,
\* and otherwise the member's record has moved to the end of its bucket while
\* the other records keep their order.
C5_ToggleTwiceRestoresReactors ==
    \A t \in MemberToggles :
        LET s == t[1]
            data == t[2]
            userId == Snapshot(RM, data.roomId, s).userId
            after == ToggleTwice(s, data)
            had == hasUserReacted(reactions, data.messageId, userId, data.emoji)
            others(b) == SelectSeq(b, LAMBDA r : r.userId # userId)
            old == Bucket(reactions, data.messageId, data.emoji)
            new == Bucket(after, data.messageId, data.emoji)
        IN  /\ DOMAIN after = DOMAIN reactions
            /\ \A m \in DOMAIN reactions, e \in AllowedEmojis :
                   Reactors(after, m, e) = Reactors(reactions, m, e)
            /\ ~had => after = reactions
            /\ had => /\ others(new) = others(old)
                      /\ new[Len(new)].userId = userId

\* a member has just toggled off its record, which stood first of two
C5_Witness ==
    /\ IsEvent("message:reaction")
    /\ last.error = NoError
    /\ Len(Bucket(last.pre.rx, last.data.messageId, last.data.emoji)) = 2
    /\ Bucket(last.pre.rx, last.data.messageId, last.data.emoji)[1].userId = last.socketId
    /\ ~hasUserReacted(reactions, last.data.messageId, last.socketId, last.data.emoji)
    /\ <<last.socketId, last.data>> \in MemberToggles

\* C6: after leaveAllRooms(socketId) getUserRooms(socketId) is empty and the
\* socket is in no room's member map: every room of its room-set was left,
\* none skipped while the Set shrank under the traversal.
C6_LeaveAllRoomsLeavesAll ==
    last.op = "leaveAllRooms" =>
        /\ getUserRooms(RM, last.socketId) = <<>>
        /\ \A r \in RoomIds \cup DOMAIN rooms : ~Member(RM, r, last.socketId)
        /\ \A r \in Range(getUserRooms(last.pre.rm, last.socketId)) :
               r \notin DOMAIN rooms
                   \/ MapKeys(rooms[r].users) =
                          MapKeys(last.pre.rm.rooms[r].users) \ {last.socketId}

\* leaveAllRooms was called for a socket that was in two rooms
C6_Witness ==
    /\ last.op = "leaveAllRooms"
    /\ Len(getUserRooms(last.pre.rm, last.socketId)) = 2
    /\ \A r \in RoomIds : Member(last.pre.rm, r, last.socketId)

\* C7: a chat:message, message:reaction or room:typing whose sender is not in
\* the payload's room fails: the room registry and the reaction index are
\* unchanged, no member of the room gets anything, and the only delivery is
\* one error response, to the sender.  When the payload passes the schema the
\* failure is "User not in room", reported as error.
C7_NotInRoomFails ==
    (/\ last.op = "event"
     /\ last.eventName \in {"chat:message", "message:reaction", "room:typing"}
     /\ ~Member(last.pre.rm, last.data.roomId, last.socketId))
        => /\ last.error # NoError
           /\ RM = last.pre.rm
           /\ reactions = last.pre.rx
           /\ Len(sent) = 1
           /\ sent[1].to = last.socketId
           /\ sent[1].eventName \in {"error", "validation:error"}
           /\ ValidPayload =>
                  /\ last.error = Error("User not in room")
                  /\ sent = <<Emit(last.socketId, "error",
                                  [eventName |-> last.eventName,
                                   message |-> "User not in room"])>>

\* a connected non-member reacted to a message of a room that has a member
C7_Witness ==
    /\ IsEvent("message:reaction")
    /\ ValidPayload
    /\ ~Member(last.pre.rm, last.data.roomId, last.socketId)
    /\ roomExists(last.pre.rm, last.data.roomId)
    /\ last.error.name = "Error"

DeliveredTo(t, eventName) ==
    Cardinality({i \in 1..Len(sent) : sent[i].to = t /\ sent[i].eventName = eventName})

\* C8: when a member sends room:typing every other member of the room gets
\* exactly one room:typing and the sender gets none.
C8_TypingExcludesSender ==
    (/\ IsEvent("room:typing")
     /\ ValidPayload
     /\ Member(last.pre.rm, last.data.roomId, last.socketId))
        => \A t \in SocketIds :
               DeliveredTo(t, "room:typing") =
                   IF t # last.socketId /\ Member(last.pre.rm, last.data.roomId, t)
                   THEN 1 ELSE 0

\* a member typed in a room that has another member
C8_Witness ==
    /\ IsEvent("room:typing")
    /\ last.error = NoError
    /\ Len(getRoomUsers(last.pre.rm, last.data.roomId)) >= 2
    /\ \E t \in SocketIds \ {last.socketId} : DeliveredTo(t, "room:typing") = 1

Responses == {"message:ack", "validation:error", "error"}

\* C9: every inbound event is answered by exactly one response, sent to the
\* originating socket and to no other: message:ack on success,
\* validation:error on a ValidationError, error on any other failure.
C9_ExactlyOneResponse ==
    last.op = "event" =>
        LET replies == SelectSeq(sent, LAMBDA e : e.eventName \in Responses)
        IN  /\ Len(replies) = 1
            /\ replies[1].to = last.socketId
            /\ replies[1].data.eventName = last.eventName
            /\ replies[1].eventName =
                   CASE last.error.name = "none" -> "message:ack"
                     [] last.error.name = "ValidationError" -> "validation:error"
                     [] OTHER -> "error"

\* a join was acknowledged to the joiner after its broadcast to two members
C9_Witness ==
    /\ IsEvent("join:room")
    /\ last.error = NoError
    /\ Len(sent) = 3
    /\ sent[3] = Emit(last.socketId, "message:ack",
                      [eventName |-> "join:room", status |-> "success"])

\* C10: an event whose payload fails its schema fails with ValidationError
\* before any domain logic: the registries are unchanged, nothing is
\* broadcast, and the sender gets validation:error, also when it is not a
\* member of the payload's room.
C10_ValidationFirst ==
    (/\ last.op = "event"
     /\ last.eventName \in DOMAIN handlers
     /\ ~ValidPayload)
        => /\ last.error.name = "ValidationError"
           /\ RM = last.pre.rm
           /\ reactions = last.pre.rx
           /\ sent = <<Emit(last.socketId, "validation:error",
                           [eventName |-> last.eventName])>>

\* a malformed chat:message came from a socket that is not in its room
C10_Witness ==
    /\ IsEvent("chat:message")
    /\ ~ValidPayload
    /\ roomExists(last.pre.rm, last.data.roomId)
    /\ ~Member(last.pre.rm, last.data.roomId, last.socketId)
    /\ sent[1].eventName = "validation:error"


\* the emits of the last step that carry eventName, in the order they were made
Emitted(eventName) == SelectSeq(sent, LAMBDA e : e.eventName = eventName)

\* C11: an event name with no registered handler fails in the router: no
\* handler runs, the room registry, the reaction index and the connection
\* registry are unchanged, nothing is broadcast, the sender alone gets error,
\* and its socket stays connected, so later events are processed as before.
C11_UnknownEventFails ==
    (last.op = "event" /\ last.eventName \notin DOMAIN handlers)
        => /\ last.error = Error("No handler registered for event")
           /\ RM = last.pre.rm
           /\ reactions = last.pre.rx
           /\ CM = last.pre.cm
           /\ sent = <<Emit(last.socketId, "error",
                           [eventName |-> last.eventName,
                            message |-> "No handler registered for event"])>>
           /\ conn[last.socketId] = "connected"
           /\ ENABLED Settle

\* an unhandled event came from a member of a room that has another member
C11_Witness ==
    /\ last.op = "event"
    /\ last.eventName = "pong"
    /\ \E r \in RoomIds :
           /\ Member(RM, r, last.socketId)
           /\ Len(getRoomUsers(RM, r)) >= 2
    /\ Len(sent) = 1

\* C12: after a successful join:room every member of the room, the joiner
\* included, gets exactly one room:user_joined, whose users[] is the room's
\* membership right after the join: one entry per member, in roster order.
C12_JoinBroadcastsRoster ==
    (IsEvent("join:room") /\ last.error = NoError)
        => LET roomId == last.data.roomId
               users == getRoomUsers(RM, roomId)
           IN  /\ Member(RM, roomId, last.socketId)
               /\ \A t \in SocketIds :
                      DeliveredTo(t, "room:user_joined") =
                          IF Member(RM, roomId, t) THEN 1 ELSE 0
               /\ \A i \in 1..Len(sent) :
                      sent[i].eventName = "room:user_joined" =>
                          /\ sent[i].data.roomId = roomId
                          /\ sent[i].data.users = Roster(users)
                          /\ Len(sent[i].data.users) = Cardinality(MapKeys(rooms[roomId].users))
                          /\ \E k \in 1..Len(users) :
                                 /\ users[k].socketId = last.socketId
                                 /\ sent[i].data.user = RosterEntry(users[k])

\* the second member of a room has just joined it
C12_Witness ==
    /\ IsEvent("join:room")
    /\ last.error = NoError
    /\ ~Member(last.pre.rm, last.data.roomId, last.socketId)
    /\ Len(getRoomUsers(RM, last.data.roomId)) = 2
    /\ Len(Emitted("room:user_joined")) = 2

\* C13: when a member sends leave:room each remaining member gets exactly one
\* room:user_left with the leaver's identity as its snapshot held it before
\* the removal and a users[] equal to the remaining membership; the leaver
\* gets no room:user_left.
C13_LeaveNotifiesRemaining ==
    (/\ IsEvent("leave:room")
     /\ ValidPayload
     /\ Member(last.pre.rm, last.data.roomId, last.socketId))
        => LET roomId == last.data.roomId
               leaver == Snapshot(last.pre.rm, roomId, last.socketId)
           IN  /\ ~Member(RM, roomId, last.socketId)
               /\ \A t \in SocketIds :
                      DeliveredTo(t, "room:user_left") =
                          IF t # last.socketId /\ Member(last.pre.rm, roomId, t)
                          THEN 1 ELSE 0
               /\ \A i \in 1..Len(sent) :
                      sent[i].eventName = "room:user_left" =>
                          /\ sent[i].data.roomId = roomId
                          /\ sent[i].data.user = RosterEntry(leaver)
                          /\ sent[i].data.users = Roster(getRoomUsers(RM, roomId))
                          /\ \A k \in 1..Len(sent[i].data.users) :
                                 sent[i].data.users[k].userId # leaver.userId

\* a member left a room in which another member stays
C13_Witness ==
    /\ IsEvent("leave:room")
    /\ Member(last.pre.rm, last.data.roomId, last.socketId)
    /\ Len(getRoomUsers(RM, last.data.roomId)) >= 1
    /\ Len(Emitted("room:user_left")) >= 1


\* how many times the last step delivered eventName for room roomId to socket t
DeliveredFor(t, eventName, roomId) ==
    Cardinality({i \in 1..Len(sent) :
                    /\ sent[i].to = t
                    /\ sent[i].eventName = eventName
                    /\ sent[i].data.roomId = roomId})

\* C14: when a socket that is in several rooms disconnects, in each of its
\* rooms that keeps members every remaining member gets exactly one
\* room:user_left for that room, carrying the remaining roster; a room where
\* it was the only member is deleted and nobody gets a room:user_left for it;
\* the disconnecting socket gets nothing.
C14_DisconnectNotifiesEachRoom ==
    last.op = "disconnect" =>
        /\ \A i \in 1..Len(sent) :
               sent[i].to # last.socketId /\ sent[i].eventName = "room:user_left"
        /\ \A r \in RoomIds :
               LET was == Member(last.pre.rm, r, last.socketId)
                   remaining == IF r \in DOMAIN last.pre.rm.rooms
                                THEN MapKeys(last.pre.rm.rooms[r].users) \ {last.socketId}
                                ELSE {}
               IN  /\ \A t \in SocketIds :
                          DeliveredFor(t, "room:user_left", r) =
                              IF was /\ t \in remaining THEN 1 ELSE 0
                   /\ (was /\ remaining = {}) => ~roomExists(RM, r)
                   /\ (was /\ remaining # {}) =>
                          /\ MapKeys(rooms[r].users) = remaining
                          /\ \A i \in 1..Len(sent) :
                                 sent[i].data.roomId = r =>
                                     /\ sent[i].data.users = Roster(getRoomUsers(RM, r))
                                     /\ sent[i].data.user =
                                            RosterEntry(Snapshot(last.pre.rm, r, last.socketId))

\* a socket disconnected while alone in one room and with company in another
C14_Witness ==
    /\ last.op = "disconnect"
    /\ \E r1, r2 \in RoomIds :
           /\ Member(last.pre.rm, r1, last.socketId)
           /\ Member(last.pre.rm, r2, last.socketId)
           /\ Len(getRoomUsers(last.pre.rm, r1)) = 2
           /\ Len(getRoomUsers(last.pre.rm, r2)) = 1
           /\ ~roomExists(RM, r2)
    /\ Len(sent) = 1

\* C15: once a socket's disconnect sequence has run, the socket is a member of
\* no room, its room-set is empty, it has no userId and it is in no user's
\* socket-set, in that state and in every later one.
C15_DisconnectedIsTerminal ==
    \A s \in SocketIds :
        conn[s] = "disconnected" =>
            /\ \A r \in RoomIds \cup DOMAIN rooms : ~Member(RM, r, s)
            /\ getUserRooms(RM, s) = <<>>
            /\ getUserBySocket(CM, s) = Undefined
            /\ \A u \in DOMAIN userToSockets : s \notin Range(userToSockets[u])

\* a socket that was in both rooms has just been disconnected
C15_Witness ==
    /\ last.op = "disconnect"
    /\ conn[last.socketId] = "disconnected"
    /\ \A r \in RoomIds : Member(last.pre.rm, r, last.socketId)
    /\ last.socketId \in DOMAIN last.pre.cm.socketToUser

\* C16: when a member sends a valid chat:message every member of the room,
\* the sender included, gets exactly one chat:message with the sender's
\* identity from its room snapshot and an empty reactions map, whatever the
\* reaction index holds for that messageId.
C16_ChatReachesRoomWithNoReactions ==
    (/\ IsEvent("chat:message")
     /\ ValidPayload
     /\ Member(last.pre.rm, last.data.roomId, last.socketId))
        => /\ last.error = NoError
           /\ \A t \in SocketIds :
                  DeliveredTo(t, "chat:message") =
                      IF Member(last.pre.rm, last.data.roomId, t) THEN 1 ELSE 0
           /\ \A i \in 1..Len(sent) :
                  sent[i].eventName = "chat:message" =>
                      /\ sent[i].data.sender =
                             RosterEntry(Snapshot(last.pre.rm, last.data.roomId, last.socketId))
                      /\ sent[i].data.messageId = last.data.messageId
                      /\ sent[i].data.roomId = last.data.roomId
                      /\ sent[i].data.message = last.data.message
                      /\ sent[i].data.reactions = <<>>

\* a chat:message went to a room of two while its messageId had reactions
C16_Witness ==
    /\ IsEvent("chat:message")
    /\ last.error = NoError
    /\ Len(Emitted("chat:message")) = 2
    /\ Len(getReactions(reactions, last.data.messageId)) > 0


\* the last step was the callback's synchronous run for eventName
IsDispatch(eventName) == last.op = "dispatch" /\ last.eventName = eventName

\* the records of user userId in bucket (m, e)
RecordsOf(rx, m, e, userId) ==
    {i \in 1..Len(Bucket(rx, m, e)) : Bucket(rx, m, e)[i].userId = userId}

\* C17: a successful message:reaction of a room member removes the sender's
\* record for (messageId, emoji) when it has one and adds it otherwise, every
\* other bucket staying as it was; then each member of the payload's room,
\* the sender included, gets one message:reaction_updated whose reactions are
\* the whole post-toggle index of the message, bucket by bucket in order, as
\* lists of {userId, username}; a bucket that became empty is not in it.
C17_ToggleThenBroadcastAll ==
    (/\ IsDispatch("message:reaction")
     /\ ValidPayload
     /\ Member(last.pre.rm, last.data.roomId, last.socketId))
        => LET m == last.data.messageId
               e == last.data.emoji
               u == Snapshot(last.pre.rm, last.data.roomId, last.socketId)
               had == RecordsOf(last.pre.rx, m, e, u.userId) # {}
               after == getReactions(reactions, m)
           IN  /\ last.error = NoError
               /\ RM = last.pre.rm
               /\ had => /\ RecordsOf(reactions, m, e, u.userId) = {}
                         /\ Bucket(reactions, m, e) =
                                SelectSeq(Bucket(last.pre.rx, m, e),
                                          LAMBDA r : r.userId # u.userId)
               /\ ~had => Bucket(reactions, m, e) =
                              Append(Bucket(last.pre.rx, m, e),
                                     [userId |-> u.userId, username |-> u.username,
                                      emoji |-> e])
               /\ \A e2 \in AllowedEmojis \ {e} :
                      Bucket(reactions, m, e2) = Bucket(last.pre.rx, m, e2)
               /\ \A m2 \in (DOMAIN reactions \cup DOMAIN last.pre.rx) \ {m} :
                      getReactions(reactions, m2) = getReactions(last.pre.rx, m2)
               /\ \A t \in SocketIds :
                      DeliveredTo(t, "message:reaction_updated") =
                          IF Member(RM, last.data.roomId, t) THEN 1 ELSE 0
               /\ \A i \in 1..Len(sent) :
                      /\ sent[i].eventName = "message:reaction_updated"
                      /\ sent[i].data.messageId = m
                      /\ sent[i].data.roomId = last.data.roomId
                      /\ Len(sent[i].data.reactions) = Len(after)
                      /\ \A k \in 1..Len(after) :
                             /\ sent[i].data.reactions[k].key = after[k].key
                             /\ sent[i].data.reactions[k].value = Roster(after[k].value)
                             /\ Len(sent[i].data.reactions[k].value) > 0
                      /\ (had /\ Len(Bucket(last.pre.rx, m, e)) = 1) =>
                             \A k \in 1..Len(sent[i].data.reactions) :
                                 sent[i].data.reactions[k].key # e

\* a member took back its reaction, the only one of its bucket, while another
\* bucket of the message held a reaction, and a room of two was told
C17_Witness ==
    /\ IsDispatch("message:reaction")
    /\ last.error = NoError
    /\ Len(getReactions(last.pre.rx, last.data.messageId)) = 2
    /\ Len(Bucket(last.pre.rx, last.data.messageId, last.data.emoji)) = 1
    /\ RecordsOf(last.pre.rx, last.data.messageId, last.data.emoji, last.socketId) # {}
    /\ Len(sent) = 2
    /\ Len(sent[1].data.reactions) = 1


\* the task so far consists of the same message:reaction packet, n >= 1 times
SameToggleBatch ==
    /\ last.op \in {"dispatch", "resume"}
    /\ \A i \in 1..Len(last.batch) :
           /\ last.batch[i].eventName = "message:reaction"
           /\ last.batch[i] = last.batch[1]

\* C20: toggles of one user on one (messageId, emoji) that are in flight
\* together are applied one after the other, each deciding on the index the
\* previous one left: starting from an absent record, the record is there
\* exactly when an odd number of them has been applied (absent after two),
\* and the bucket never holds it twice.
C20_ConcurrentTogglesSerialised ==
    (/\ SameToggleBatch
     /\ Member(last.start.rm, last.batch[1].data.roomId, last.socketId))
        => LET data == last.batch[1].data
               u == Snapshot(last.start.rm, data.roomId, last.socketId)
               before == RecordsOf(last.start.rx, data.messageId, data.emoji, u.userId)
               now == RecordsOf(reactions, data.messageId, data.emoji, u.userId)
               odd == Len(last.batch) % 2 = 1
           IN  /\ Cardinality(now) <= 1
               /\ before = {} => (now # {} <=> odd)
               /\ before # {} => (now = {} <=> odd)
               /\ Len(last.batch) = 2 =>
                      \A m \in MessageIds, e \in AllowedEmojis :
                          Reactors(reactions, m, e) = Reactors(last.start.rx, m, e)

\* the second of two identical toggles handed over in one task has run,
\* before the first was acknowledged, on a bucket another user is in
C20_Witness ==
    /\ SameToggleBatch
    /\ last.op = "dispatch"
    /\ Len(last.batch) = 2
    /\ Len(microtasks) = 2
    /\ RecordsOf(last.start.rx, last.data.messageId, last.data.emoji, last.socketId) = {}
    /\ Len(Bucket(last.start.rx, last.data.messageId, last.data.emoji)) >= 1
    /\ RecordsOf(last.pre.rx, last.data.messageId, last.data.emoji, last.socketId) # {}
    /\ RecordsOf(reactions, last.data.messageId, last.data.emoji, last.socketId) = {}


RoomEvents ==
    {"room:user_joined", "room:user_left", "chat:message", "message:reaction_updated",
     "room:typing"}

\* C18: a room-scoped event is delivered only to sockets that are members of
\* its room when it is broadcast (the membership the step leaves for that
\* room) and that are connected, and room:typing never to its sender: a
\* socket that left the room or disconnected gets no later event of the room.
C18_BroadcastToCurrentMembersOnly ==
    \A i \in 1..Len(sent) :
        sent[i].eventName \in RoomEvents =>
            /\ Member(RM, sent[i].data.roomId, sent[i].to)
            /\ conn[sent[i].to] = "connected"
            /\ sent[i].eventName = "room:typing" => sent[i].to # last.socketId

\* a chat:message reached its room while a connected socket that had left
\* every room it joined got nothing
C18_Witness ==
    /\ IsEvent("chat:message")
    /\ last.error = NoError
    /\ Len(Emitted("chat:message")) >= 1
    /\ \E t \in SocketIds \ {last.socketId} :
           /\ conn[t] = "connected"
           /\ t \in DOMAIN socketToRooms
           /\ socketToRooms[t] = <<>>
           /\ \A i \in 1..Len(sent) : sent[i].to # t

\* C19: after every call of the RoomManager interface, createRoom included,
\* a room is in the room table if and only if it has at least one member.
C19_NoEmptyRoomAfterAnyCall ==
    last.op \in {"createRoom", "joinRoom", "leaveRoom", "leaveAllRooms"} =>
        \A r \in RoomIds :
            (r \in DOMAIN rooms) <=> (\E s \in SocketIds : Member(RM, r, s))


\* C21: whatever the order in which events of different sockets and
\* disconnects are processed, each is applied to the registries as the
\* previous one left them, and in every reachable state membership is
\* bidirectional, a room is in the table iff it has members, no bucket or
\* message entry is empty and no bucket holds a user twice.
C21_InvariantsUnderInterleaving ==
    /\ \A r \in RoomIds, s \in SocketIds :
           Member(RM, r, s) <=> r \in Range(getUserRooms(RM, s))
    /\ \A r \in DOMAIN rooms : MapKeys(rooms[r].users) # {}
    /\ \A r \in DOMAIN rooms :
           /\ rooms[r].id = r
           /\ \A i \in 1..Len(rooms[r].users) :
                  rooms[r].users[i].key = rooms[r].users[i].value.socketId
    /\ \A m \in DOMAIN reactions :
           /\ MapKeys(reactions[m]) # {}
           /\ \A e \in MapKeys(reactions[m]) :
                  /\ Bucket(reactions, m, e) # <<>>
                  /\ \A u \in Reactors(reactions, m, e) :
                         Cardinality(RecordsOf(reactions, m, e, u)) = 1
                  /\ \A i \in 1..Len(Bucket(reactions, m, e)) :
                         Bucket(reactions, m, e)[i].emoji = e

\* a socket disconnected out of a room it shared with another socket, both
\* having a record in the same bucket
C21_Witness ==
    /\ last.op = "disconnect"
    /\ \E r \in RoomIds, m \in MessageIds, e \in AllowedEmojis :
           /\ Len(getRoomUsers(last.pre.rm, r)) >= 2
           /\ Member(last.pre.rm, r, last.socketId)
           /\ Cardinality(Reactors(last.pre.rx, m, e)) >= 2
           /\ last.socketId \in Reactors(reactions, m, e)

C23_PingAnsweredWithPong ==
    (IsEvent("ping") /\ ValidPayload)
        => \E i \in 1..Len(sent) :
               sent[i].to = last.socketId /\ sent[i].eventName = "pong"

\* C27: a leave:room from a socket that is not in the named room (no such
\* room, or the sender is not in it) leaves the room registry as it was,
\* delivers room:user_left to nobody and succeeds: the sender gets
\* message:ack.
C27_LeaveByStrangerIsNoOp ==
    (/\ IsEvent("leave:room")
     /\ ValidPayload
     /\ ~Member(last.pre.rm, last.data.roomId, last.socketId))
        => /\ last.error = NoError
           /\ RM = last.pre.rm
           /\ Emitted("room:user_left") = <<>>
           /\ sent = <<Emit(last.socketId, "message:ack",
                           [eventName |-> "leave:room", status |-> "success"])>>

\* a socket that is in another room asked to leave a room that has a member
C27_Witness ==
    /\ IsEvent("leave:room")
    /\ ValidPayload
    /\ roomExists(last.pre.rm, last.data.roomId)
    /\ ~Member(last.pre.rm, last.data.roomId, last.socketId)
    /\ getUserRooms(last.pre.rm, last.socketId) # <<>>
    /\ Len(sent) = 1

\* C29: only message:reaction changes the reaction index: connects, join:room,
\* leave:room, chat:message, room:typing, ping, unhandled events and
\* disconnects leave it as it was, so the records of a socket that leaves
\* or disconnects stay.
C29_OnlyToggleChangesReactions ==
    (last.op \in {"connect", "disconnect"}
        \/ (last.op = "event" /\ last.eventName # "message:reaction"))
        => reactions = last.pre.rx

\* a member left the room of a message that it had reacted to
C29_Witness ==
    /\ IsEvent("leave:room")
    /\ Member(last.pre.rm, last.data.roomId, last.socketId)
    /\ \E m \in MessageIds, e \in AllowedEmojis :
           last.socketId \in Reactors(reactions, m, e)


\* C28: joinRoom is an upsert keyed by the socket id: when the socket is
\* already in the room the member count stays, the socket's snapshot becomes
\* the one given and the other members' snapshots stay; the roster of a room
\* never holds two entries of one socket id.
C28_JoinRoomIsUpsert ==
    /\ \A r \in DOMAIN rooms :
           \A i, j \in 1..Len(getRoomUsers(RM, r)) :
               getRoomUsers(RM, r)[i].socketId = getRoomUsers(RM, r)[j].socketId => i = j
    /\ (last.op = "joinRoom" /\ Member(last.pre.rm, last.data.roomId, last.socketId))
           => LET r == last.data.roomId
              IN  /\ Len(getRoomUsers(RM, r)) = Len(getRoomUsers(last.pre.rm, r))
                  /\ Snapshot(RM, r, last.socketId) = last.data.user
                  /\ \A t \in SocketIds \ {last.socketId} :
                         Member(RM, r, t) <=> Member(last.pre.rm, r, t)
                  /\ \A t \in SocketIds \ {last.socketId} :
                         Member(RM, r, t) => Snapshot(RM, r, t) = Snapshot(last.pre.rm, r, t)
                  /\ getUserRooms(RM, last.socketId) = getUserRooms(last.pre.rm, last.socketId)

\* a member of a room of two joined it again under another name
C28_Witness ==
    /\ last.op = "joinRoom"
    /\ Member(last.pre.rm, last.data.roomId, last.socketId)
    /\ Len(getRoomUsers(last.pre.rm, last.data.roomId)) = 2
    /\ Snapshot(last.pre.rm, last.data.roomId, last.socketId).username
           # last.data.user.username
    /\ Snapshot(RM, last.data.roomId, last.socketId).username = last.data.user.username

\* C30: addReaction leaves the index as it is when the (messageId, emoji)
\* bucket holds a record of the reaction's userId; otherwise the record
\* becomes the last of that bucket, the records before it and every other
\* bucket staying as they were, so a bucket lists its records in the order
\* they were added.
C30_AddAppendsOrNothing ==
    last.op = "addReaction"
        => LET m == last.data.messageId
               r == last.data.reaction
           IN  IF RecordsOf(last.pre.rx, m, r.emoji, r.userId) # {}
               THEN reactions = last.pre.rx
               ELSE /\ Bucket(reactions, m, r.emoji)
                          = Append(Bucket(last.pre.rx, m, r.emoji), r)
                    /\ \A b \in ApiBuckets :
                           b # <<m, r.emoji>>
                               => Bucket(reactions, b[1], b[2]) = Bucket(last.pre.rx, b[1], b[2])

\* a record was added to a bucket that held another user's record
C30_Witness ==
    /\ last.op = "addReaction"
    /\ RecordsOf(last.pre.rx, last.data.messageId, last.data.reaction.emoji,
                 last.data.reaction.userId) = {}
    /\ Len(Bucket(last.pre.rx, last.data.messageId, last.data.reaction.emoji)) = 1
    /\ Len(Bucket(reactions, last.data.messageId, last.data.reaction.emoji)) = 2


(***************************************************************************)
(* The connection registry at work: sockets that authenticate as a user   *)
(* or fall back to their own id, handleDisconnect followed statement by    *)
(* statement, and emitToUser called by a component holding the server.     *)
(***************************************************************************)
\* what socket.handshake.auth.userId holds
PresenceAuthUserIds == {Undefined, "", "u1"}

\* the users emitToUser is called for; nobody ever connects as u2
PresenceUsers == Range(AllSocketIds) \cup {"u1", "u2"}

PresenceConnect == \E s \in SocketIds, auth \in PresenceAuthUserIds : Connect(s, auth)

PresenceJoinRoom ==
    \E s \in SocketIds, r \in RoomIds : \E n \in JoinNames(s) :
        Inbound(s, "join:room", [roomId |-> r, username |-> n])

\* socket.on('disconnect') fires: handleDisconnect reads getUserRooms
DisconnectBegin ==
    \E s \in SocketIds :
        /\ last = Idle
        /\ conn[s] = "connected"
        /\ conn' = [conn EXCEPT ![s] = "disconnected"]
        /\ sent' = <<>>
        /\ last' = Step("disconnecting", s, "", [roomIds |-> getUserRooms(RM, s)], NoError)
        /\ UNCHANGED <<rooms, socketToRooms, socketToUser, userToSockets, reactions,
                       microtasks>>

\* the next statement of the running handleDisconnect
DisconnectNext ==
    /\ last.op = "disconnecting"
    /\ LET res == handleDisconnectStep(RM, CM, last.socketId, last.data.roomIds)
       IN  /\ rooms' = res.rm.rooms
           /\ socketToRooms' = res.rm.socketToRooms
           /\ socketToUser' = res.cm.socketToUser
           /\ userToSockets' = res.cm.userToSockets
           /\ sent' = sent \o deliver(conn, res.out)
           /\ last' = [last EXCEPT !.op = IF res.done THEN "disconnect" ELSE "disconnecting",
                                    !.data = [roomIds |-> res.roomIds]]
    /\ UNCHANGED <<reactions, conn, microtasks>>

EmitToUserCall ==
    \E userId \in PresenceUsers :
        /\ last = Idle
        /\ sent' = deliver(conn, emitToUser(CM, userId, "notice", [text |-> "hi"]))
        /\ last' = Step("emitToUser", "", "notice", [userId |-> userId], NoError)
        /\ UNCHANGED <<rooms, socketToRooms, socketToUser, userToSockets, reactions, conn,
                       microtasks>>

\* handleDisconnect does not yield: the task ends when it has returned
PresenceSettle == last.op # "disconnecting" /\ Settle

NextPresence ==
    \/ PresenceConnect
    \/ PresenceJoinRoom
    \/ DisconnectBegin
    \/ DisconnectNext
    \/ EmitToUserCall
    \/ PresenceSettle

SpecPresence == Init /\ [][NextPresence]_vars

\* C24: removeConnection deletes the socket's socketToUser entry and takes
\* the socket out of its user's set; the user's entry is deleted exactly
\* when the set has become empty, and a user with other sockets keeps them;
\* the entries of other sockets and users stay.
C24_RemoveConnection ==
    last.op = "disconnect"
        => LET s == last.socketId
               userId == getUserBySocket(last.pre.cm, s)
               before == getConnectionsByUser(last.pre.cm, userId)
               remaining == SelectSeq(before, LAMBDA t : t # s)
           IN  /\ getUserBySocket(CM, s) = Undefined
               /\ s \notin DOMAIN socketToUser
               /\ getConnectionsByUser(CM, userId) = remaining
               /\ (userId \in DOMAIN userToSockets) <=> (remaining # <<>>)
               /\ \A t \in (DOMAIN last.pre.cm.socketToUser) \ {s} :
                      getUserBySocket(CM, t) = getUserBySocket(last.pre.cm, t)
               /\ DOMAIN socketToUser = (DOMAIN last.pre.cm.socketToUser) \ {s}
               /\ \A u \in (DOMAIN last.pre.cm.userToSockets \cup DOMAIN userToSockets)
                              \ {userId} :
                      getConnectionsByUser(CM, u) = getConnectionsByUser(last.pre.cm, u)

\* one of the two sockets of a user has disconnected and the other is still
\* registered for the user
C24_Witness ==
    /\ last.op = "disconnect"
    /\ Len(getConnectionsByUser(last.pre.cm, getUserBySocket(last.pre.cm, last.socketId))) = 2
    /\ Len(getConnectionsByUser(CM, getUserBySocket(last.pre.cm, last.socketId))) = 1

\* C25: emitToUser(userId, ...) delivers the event once to every socket that
\* is registered for the user at the time of the call and to no other
\* socket; for a user without sockets it delivers nothing.
C25_EmitToUserReachesItsSockets ==
    last.op = "emitToUser"
        => /\ \A t \in SocketIds :
                  DeliveredTo(t, "notice") =
                      IF getUserBySocket(CM, t) = last.data.userId THEN 1 ELSE 0
           /\ \A i \in 1..Len(sent) :
                  sent[i] = Emit(sent[i].to, "notice", [text |-> "hi"])
           /\ (\A t \in SocketIds : getUserBySocket(CM, t) # last.data.userId)
                  => sent = <<>>

\* a user with two sockets was served while the other user's socket got nothing
C25_Witness ==
    /\ last.op = "emitToUser"
    /\ Len(sent) >= 2
    /\ \A i \in 1..Len(sent) : getUserBySocket(CM, sent[i].to) = last.data.userId

\* C26: while handleDisconnect is leaving rooms and broadcasting
\* room:user_left the connection registry is untouched, so the socket still
\* resolves to its user; removeConnection has run only once the socket is in
\* no room and each room it shared has been told.
C26_RemoveConnectionComesLast ==
    /\ last.op = "disconnecting"
           => /\ CM = last.pre.cm
              /\ getUserBySocket(CM, last.socketId) # Undefined
    /\ (last.op \in {"disconnecting", "disconnect"}
            /\ getUserBySocket(CM, last.socketId) = Undefined)
           => /\ last.op = "disconnect"
              /\ getUserRooms(RM, last.socketId) = <<>>
              /\ \A r \in RoomIds : ~Member(RM, r, last.socketId)
              /\ \A r \in RoomIds, t \in SocketIds :
                     (Member(last.pre.rm, r, last.socketId) /\ Member(RM, r, t))
                         => DeliveredFor(t, "room:user_left", r) = 1
              /\ LET res == handleDisconnect(last.pre.rm, last.pre.cm, last.socketId)
                 IN  RM = res.rm /\ CM = res.cm /\ sent = deliver(conn, res.out)

\* the socket has left one of its two rooms, whose other member has been
\* told, and is still registered while the second room is to come
C26_Witness ==
    /\ last.op = "disconnecting"
    /\ Len(last.data.roomIds) = 1
    /\ Len(getUserRooms(last.pre.rm, last.socketId)) = 2
    /\ Emitted("room:user_left") # <<>>
    /\ getUserBySocket(CM, last.socketId) # Undefined


\* C31: a chat:message or room:typing event, whether it succeeds or fails,
\* leaves the room registry, the connection registry and the reaction index
\* as they were.
C31_ChatAndTypingChangeNothing ==
    (IsEvent("chat:message") \/ IsEvent("room:typing"))
        => /\ RM = last.pre.rm
           /\ CM = last.pre.cm
           /\ reactions = last.pre.rx

\* a chat:message of a socket that is not in the room was refused while the
\* room and the reaction index hold entries
C31_Witness ==
    /\ IsEvent("chat:message")
    /\ ValidPayload
    /\ last.error = Error("User not in room")
    /\ roomExists(RM, last.data.roomId)
    /\ reactions # EmptyFn

\* C34: isUserInRoom(roomId, socketId) holds exactly when getRoomUsers(roomId)
\* has a snapshot with that socketId, every member-map key being its
\* snapshot's socketId; so chat:message, message:reaction and room:typing
\* never fail to find the sender once the membership check has passed.
C34_MemberKeyIsSnapshotSocket ==
    /\ \A r \in RoomIds :
           LET users == getRoomUsers(RM, r)
               listed == {users[i].socketId : i \in 1..Len(users)}
           IN  \A t \in SocketIds : isUserInRoom(RM, r, t) <=> t \in listed
    /\ \A r \in DOMAIN rooms :
           \A i \in 1..Len(rooms[r].users) :
               rooms[r].users[i].key = rooms[r].users[i].value.socketId
    /\ last.op = "event"
           => last.error.message \notin {"Sender not found", "User not found", "Typer not found"}

\* the second member of a room of two sent a chat:message and was found
C34_Witness ==
    /\ IsEvent("chat:message")
    /\ last.error = NoError
    /\ Len(getRoomUsers(RM, last.data.roomId)) = 2
    /\ getRoomUsers(RM, last.data.roomId)[2].socketId = last.socketId
    /\ DeliveredTo(last.socketId, "chat:message") = 1

\* C35: every socket id in a room's member map is registered in the
\* connection registry and connected: a disconnected socket is in no room.
C35_MembersAreRegistered ==
    \A r \in DOMAIN rooms :
        \A i \in 1..Len(rooms[r].users) :
            LET t == rooms[r].users[i].key
                userId == getUserBySocket(CM, t)
            IN  /\ userId # Undefined
                /\ t \in Range(getConnectionsByUser(CM, userId))
                /\ conn[t] = "connected"

\* a socket disconnected out of two rooms, the other socket staying in both
C35_Witness ==
    /\ last.op = "disconnect"
    /\ Len(getUserRooms(last.pre.rm, last.socketId)) = 2
    /\ \A r \in RoomIds : Len(getRoomUsers(RM, r)) = 1

\* the deliveries of a leave:room of socket s for room r in registry rm
LeaveOut(rm, s, r) == LeaveRoomHandler_execute(rm, reactions, s, [roomId |-> r]).out

\* C37: a departure is told once: a leave:room or disconnect of a socket
\* that is in the room gives each remaining member one room:user_left for
\* that room, one of a socket that is not in it (it has left before) gives
\* none; right after a leave:room a second one, or the disconnect, of the
\* same socket sends no room:user_left for that room.
C37_OneUserLeftPerDeparture ==
    /\ (IsEvent("leave:room") /\ ValidPayload) \/ last.op = "disconnect"
           => \A r \in RoomIds, t \in SocketIds :
                  DeliveredFor(t, "room:user_left", r) =
                      IF /\ Member(last.pre.rm, r, last.socketId)
                         /\ Member(RM, r, t)
                         /\ last.op = "event" => last.data.roomId = r
                      THEN 1 ELSE 0
    /\ (IsEvent("leave:room") /\ ValidPayload)
           => /\ LeaveOut(RM, last.socketId, last.data.roomId) = <<>>
              /\ \A i \in 1..Len(handleDisconnect(RM, CM, last.socketId).out) :
                     handleDisconnect(RM, CM, last.socketId).out[i].data.roomId
                         # last.data.roomId

\* a member left one of its two rooms, the other socket staying in both
C37_Witness ==
    /\ IsEvent("leave:room")
    /\ Len(getUserRooms(last.pre.rm, last.socketId)) = 2
    /\ \A r \in RoomIds : \E t \in SocketIds \ {last.socketId} : Member(RM, r, t)
    /\ Len(Emitted("room:user_left")) = 1
    /\ handleDisconnect(RM, CM, last.socketId).out # <<>>

\* the registry and deliveries when the only member t of room r leaves it
\* (by leave:room or by disconnecting) and socket s then joins r
Reincarnated(t, r, s, byDisconnect) ==
    LET rm1 == IF byDisconnect
               THEN handleDisconnect(RM, CM, t).rm
               ELSE LeaveRoomHandler_execute(RM, reactions, t, [roomId |-> r]).rm
    IN  JoinRoomHandler_execute(rm1, reactions, s,
                                [roomId |-> r, username |-> "alice"])

\* between two tasks, and right after a leave:room: the registries of any
\* other state are those of the settled state that follows it
AtLeaveBoundary == last = Idle \/ IsEvent("leave:room")

\* C39: a room whose last member left or disconnected and that is joined
\* again has the joining socket as its only member: roomUsers and the
\* room:user_joined broadcast hold nobody of the earlier incarnation.
C39_RecreatedRoomStartsFresh ==
    /\ (IsEvent("join:room") /\ ValidPayload /\ ~roomExists(last.pre.rm, last.data.roomId))
           => /\ MapKeys(rooms[last.data.roomId].users) = {last.socketId}
              /\ \A i \in 1..Len(sent) : sent[i].to = last.socketId
    /\ \A r \in DOMAIN rooms :
           (AtLeaveBoundary /\ Len(rooms[r].users) = 1)
               => \A s \in SocketIds, byDisconnect \in BOOLEAN :
                      LET t == getRoomUsers(RM, r)[1].socketId
                          res == Reincarnated(t, r, s, byDisconnect)
                      IN  (conn[s] = "connected" /\ (byDisconnect => s # t))
                              => /\ Roster(getRoomUsers(res.rm, r))
                                        = <<[userId |-> s, username |-> "alice"]>>
                                 /\ res.out
                                        = <<Emit(s, "room:user_joined",
                                                 [roomId |-> r,
                                                  user |-> [userId |-> s, username |-> "alice"],
                                                  users |-> <<[userId |-> s,
                                                               username |-> "alice"]>>])>>

\* a room that has lost one of its two members is down to its last one
\* while the socket that left is still connected and in no room
C39_Witness ==
    /\ IsEvent("leave:room")
    /\ Len(getRoomUsers(last.pre.rm, last.data.roomId)) = 2
    /\ Len(getRoomUsers(RM, last.data.roomId)) = 1
    /\ getUserRooms(RM, last.socketId) = <<>>
    /\ conn[last.socketId] = "connected"


\* what the members of room r1 are told when member s of r1 toggles
\* (m, e) there, the reaction index being rx
ReportedTo(rx, s, r1, m, e) ==
    MessageReactionHandler_execute(RM, rx, s, [messageId |-> m, roomId |-> r1, emoji |-> e]).out

\* the reaction index after member t of room r2 toggles (m, e) there
ToggledIn(t, r2, m, e) ==
    MessageReactionHandler_execute(RM, reactions, t,
                                   [messageId |-> m, roomId |-> r2, emoji |-> e]).rx

\* C36: reaction state is isolated per room: the message:reaction_updated
\* that a toggle in room r1 sends to r1's members is the same whether or
\* not a toggle addressed to another room r2 came before it.
C36_ReactionsIsolatedPerRoom ==
    \A r1, r2 \in RoomIds, s, t \in SocketIds, m \in MessageIds, e1, e2 \in ToggleEmojis :
        (/\ AtToggleBoundary
         /\ r1 # r2
         /\ Member(RM, r1, s)
         /\ Member(RM, r2, t))
            => ReportedTo(ToggledIn(t, r2, m, e2), s, r1, m, e1)
                   = ReportedTo(reactions, s, r1, m, e1)

\* C40: once handleDisconnect has finished for a socket, socketToRooms has
\* no entry for it, not even an empty set.
C40_NoRoomSetAfterDisconnect ==
    \A s \in SocketIds : conn[s] = "disconnected" => s \notin DOMAIN socketToRooms


(***************************************************************************)
(* The ConnectionManager interface called directly (IConnectionManager).   *)
(***************************************************************************)
\* the users the calls register sockets for
ApiUserIds == {"u1", "u2"}

ConnectionCall(op, socketId, data, cm) ==
    /\ last = Idle
    /\ socketToUser' = cm.socketToUser
    /\ userToSockets' = cm.userToSockets
    /\ sent' = <<>>
    /\ last' = Step(op, socketId, "", data, NoError)
    /\ UNCHANGED <<rooms, socketToRooms, reactions, conn, microtasks>>

AddConnectionCall ==
    \E s \in SocketIds, userId \in ApiUserIds :
        ConnectionCall("addConnection", s, [userId |-> userId], addConnection(CM, s, userId))

RemoveConnectionCall ==
    \E s \in SocketIds : ConnectionCall("removeConnection", s, <<>>, removeConnection(CM, s))

NextConnections ==
    \/ AddConnectionCall
    \/ RemoveConnectionCall
    \/ Settle

SpecConnections == Init /\ [][NextConnections]_vars

\* C33: after any sequence of addConnection and removeConnection calls,
\* addConnection of a registered socket with another userId included, a
\* socket is in a user's connection set iff the user is the socket's user,
\* and no user entry with an empty set is kept.
C33_ConnectionRegistryConsistent ==
    /\ \A s \in SocketIds, userId \in ApiUserIds \cup DOMAIN userToSockets :
           s \in Range(getConnectionsByUser(CM, userId)) <=> getUserBySocket(CM, s) = userId
    /\ \A userId \in DOMAIN userToSockets : userToSockets[userId] # <<>>


(***************************************************************************)
(* The onAny callback split at its await, fed with the three events whose  *)
(* broadcast includes the sender, well-formed and malformed.               *)
(***************************************************************************)
OrderChatPayloads ==
    {[message |-> "hi", roomId |-> r, messageId |-> m] : r \in LoopRooms, m \in MessageIds}
        \cup {[message |-> "", roomId |-> "r1", messageId |-> "m1"]}

OrderReactionPayloads == {data \in LoopReactionPayloads : data.emoji \in InputEmojis}

OrderChatMessage ==
    \E s \in SocketIds, data \in OrderChatPayloads : Dispatch(s, "chat:message", data)

OrderMessageReaction ==
    \E s \in SocketIds, data \in OrderReactionPayloads : Dispatch(s, "message:reaction", data)

NextOrder ==
    \/ ConnectEvent
    \/ LoopJoinRoom
    \/ OrderChatMessage
    \/ OrderMessageReaction
    \/ Resume
    \/ DisconnectEvent
    \/ Settle

SpecOrder == Init /\ [][NextOrder]_vars

\* the event a handler broadcasts to the room of the payload
BroadcastOf(eventName) ==
    CASE eventName = "join:room" -> "room:user_joined"
      [] eventName = "chat:message" -> "chat:message"
      [] eventName = "message:reaction" -> "message:reaction_updated"
      [] OTHER -> Undefined

\* C38: for join:room, chat:message and message:reaction the sender gets the
\* broadcast while the event is routed and its message:ack only when the
\* callback resumes; while an ack is outstanding only packets of the same
\* socket are routed, so no event of another socket comes between the two.
C38_BroadcastBeforeAck ==
    /\ (last.op = "dispatch" /\ last.error = NoError)
           => /\ DeliveredTo(last.socketId, BroadcastOf(last.eventName)) = 1
              /\ Emitted("message:ack") = <<>>
              /\ microtasks # <<>>
              /\ microtasks[Len(microtasks)]
                     = [socketId |-> last.socketId, eventName |-> last.eventName,
                        error |-> NoError]
    /\ (last.op = "resume" /\ last.error = NoError)
           => sent = <<Emit(last.socketId, "message:ack",
                           [eventName |-> last.eventName, status |-> "success"])>>
    /\ microtasks # <<>>
           => /\ last.op \in {"dispatch", "resume"}
              /\ \A i \in 1..Len(microtasks) : microtasks[i].socketId = last.socketId
              /\ Len(microtasks) <= Len(last.batch)

\* the first of two chat:message of one task is acknowledged after both
\* were broadcast, while the other member of the room waits for its turn
C38_Witness ==
    /\ last.op = "resume"
    /\ last.eventName = "chat:message"
    /\ last.error = NoError
    /\ Len(last.batch) = 2
    /\ Len(microtasks) = 1
    /\ microtasks[1].error = NoError
    /\ \E t \in SocketIds \ {last.socketId} : Member(RM, "r1", t)


\* a suspended onAny callback is resumed: its promise has settled, so its
\* continuation is in the microtask queue, which the event loop drains
\* before it takes the next task
SpecOrderFair == SpecOrder /\ WF_vars(Resume)

\* the callback for event eventName of socket s has replied to s
Answered(s, eventName) ==
    /\ last.op = "resume"
    /\ last.socketId = s
    /\ last.eventName = eventName
    /\ Len(sent) = 1
    /\ sent[1].to = s
    /\ sent[1].eventName \in Responses
    /\ sent[1].data.eventName = eventName

\* C32: every event handed to onAny is answered: each suspended callback is
\* eventually resumed, in the order of suspension, and then sends
\* message:ack, validation:error or error for its event to the sender, one
\* reply per event; a failed event leaves the socket
\* connected and the registries untouched, and whenever the loop is idle
\* an event of any connected socket can be taken.
C32_EveryEventAnswered ==
    /\ \A s \in SocketIds :
           (last.op = "dispatch" /\ last.socketId = s) ~> Answered(s, last.eventName)
    /\ \A k \in 1..MaxBatch :
           (Len(microtasks) = k) ~> (Len(microtasks) = k - 1 /\ last.op = "resume")
    /\ [](last.op = "resume"
             => /\ Answered(last.socketId, last.eventName)
                /\ sent[1].eventName =
                       CASE last.error.name = "none" -> "message:ack"
                         [] last.error.name = "ValidationError" -> "validation:error"
                         [] OTHER -> "error")
    /\ []((last.op \in {"dispatch", "resume"} /\ last.error # NoError)
             => /\ conn[last.socketId] = "connected"
                /\ Registries = last.pre)
    /\ [](last = Idle
             => \A s \in SocketIds :
                    conn[s] = "connected"
                        => ENABLED Dispatch(s, "chat:message",
                                            [message |-> "hi", roomId |-> "r1",
                                             messageId |-> "m1"]))

\* a chat:message refused because its sender was in no room is answered
\* with error while the join:room that followed it in the same task has
\* been routed and awaits its ack
C32_Witness ==
    /\ Answered(last.socketId, "chat:message")
    /\ last.error = Error("User not in room")
    /\ sent[1].eventName = "error"
    /\ Len(microtasks) = 1
    /\ microtasks[1].eventName = "join:room"
    /\ microtasks[1].error = NoError
    /\ Member(RM, "r1", last.socketId)

====
